---- MODULE Spec2Model ----
(***************************************************************************)
(* Model of opencode_on_im.opencode.events.EventSubscriber: the SSE        *)
(* subscription loop with auto-reconnect, its start()/stop() API and the   *)
(* callbacks it makes; and of the path an event takes from there, through  *)
(* Application._on_opencode_event and NotificationRouter.route, to the     *)
(* users the adapters registered online.                                   *)
(*                                                                         *)
(* asyncio runs the code between two awaits atomically, so every action    *)
(* below is the code from one suspension point of a coroutine to the next. *)
(* The suspension points of the loop task are: the HTTP connect, the read  *)
(* of the next line, each `await callback(...)` and the backoff sleep.     *)
(* stop() suspends once, at `await self._task`; start() never suspends.    *)
(* No state callback is registered (Application registers none), so        *)
(* _set_state never suspends.                                              *)
(*                                                                         *)
(* Time is counted in units of 8 ms, so that the jittered doublings of the *)
(* reconnect delay are exact integers.  Timestamps of ConnectionStats are  *)
(* not modelled; stats.current_state always equals _state (_set_state      *)
(* writes both together) and is represented by the variable state.         *)
(***************************************************************************)
EXTENDS Integers, Sequences, FiniteSets, TLC

\* ---------------------------------------------------------------- bounds
\* Number of task objects that can exist at once.
MaxTasks == 2
\* Cap on stats.total_reconnects (the counter is unbounded in the code).
MaxReconnects == 3
\* Cap on stats.total_events (the counter is unbounded in the code).
MaxEvents == 2
\* Cap on the number of synthetic events recorded in synthLog.
MaxLog == 5
\* Cap on the number of lines recorded per connection in wire.
MaxWire == 3

\* Cap on the number of save_offline_message calls.
MaxSaves == 4
\* Settings.max_offline_messages (20 by default), scaled down.
max_offline_messages == 2
\* The readings of datetime.utcnow() are 1..MaxTime.
MaxTime == 2
\* Cap on the qr_version of an instance.
MaxVersion == 2

\* ------------------------------------------------------ program constants
\* min_reconnect_delay: 1.0 s = 125 units of 8 ms.
MinDelay == 125
\* max_reconnect_delay as passed to the constructor: 4.0 s = 500 units.
MaxDelay == 500
\* random.uniform(0.8, 1.2), in tenths.
Jitters == {8, 10, 12}
\* The values N of "retry: N" lines (milliseconds) the server sends.
RetryMs == {-1000, 0, 400, 2000, 8000}
\* max_reconnect_attempts = None ("infinite").
NoCap == -1
\* self._task = None.
NoneTask == 0
\* The values of max_reconnect_attempts a subscriber is constructed with.
AttemptCaps == {NoCap, 1, 2}

TaskIds == 1..MaxTasks

DISCONNECTED == "disconnected"
CONNECTING == "connecting"
CONNECTED == "connected"
RECONNECTING == "reconnecting"

CONNECTION_LOST == "_connection.lost"
CONNECTION_RESTORED == "_connection.restored"

\* The lines an SSE stream can carry, by what _process_line does with them.
Lines ==
    {[kind |-> k, arg |-> 0] :
        k \in {"empty", "data", "data_blank", "data_badjson", "data_nondict",
               "event", "id", "retry_bad", "other"}}
    \cup {[kind |-> "retry", arg |-> n] : n \in RetryMs}

\* The exceptions a connection attempt or an open stream can end with, other
\* than an HTTP status error.
NetErrors == {"ConnectError", "ReadTimeout", "RemoteProtocolError"}
OtherErrors == {"Exception"}
HttpRetriable == {"HTTP500"}
HttpAuth == {"HTTP401", "HTTP403"}

\* Python's None, where a string is expected.
None == "None"
\* The IM users, as (platform, user_id) pairs.
Users == {<<"telegram", "u1">>, <<"telegram", "u2">>, <<"dingtalk", "u3">>}
\* The adapter lists _init_adapters can build when a token is configured.
AdapterLists == {<<"telegram">>, <<"telegram", "dingtalk">>}
\* MAX_RETRIES of the API client: attempts of a standard call.
MAX_RETRIES == 3
\* stop_after_attempt(2) of send_message.
SEND_MAX_ATTEMPTS == 2
\* OpenCodeClient._max_consecutive_failures.
MaxConsecutiveFailures == 5
\* Cap on _consecutive_failures (the counter is unbounded in the code).
MaxFailures == 7
\* RETRIABLE_EXCEPTIONS of the API client.
RETRIABLE_EXCEPTIONS ==
    {"ConnectError", "ConnectTimeout", "ReadTimeout", "WriteTimeout",
     "PoolTimeout", "RemoteProtocolError"}
\* retry_if_exception_type of send_message.
SendRetriable == {"ReadTimeout", "ConnectError"}
\* The exceptions an attempt of an API call can end with: those above, a
\* broken connection while reading, and raise_for_status on a 4xx/5xx.
ClientErrors == RETRIABLE_EXCEPTIONS \cup {"ReadError", "HTTPStatusError"}
\* The API calls: the ones decorated with api_retry, and send_message.
CallKinds == {"standard", "message"}
\* No API call in progress.
NoCall == [kind |-> "none", attempt |-> 0]

\* The names create_instance and rename_instance are called with; "" stands
\* for a call without a name.
Names == {"", "a", "b", "instance"}

\* The names create_instance generates: "instance", then "instance-<counter>".
AutoNames == <<"instance", "instance-1", "instance-2">>

\* A payload without the key connect_secret (dict.get returns None).
NoSecret == <<None, 0>>

\* No QR payload handler is between verification and registration.
NoPending ==
    [user |-> <<None, None>>, instance_id |-> None, secret |-> NoSecret,
     current |-> NoSecret]

\* The users who send QR payloads.
BindUsers == {<<"telegram", "u1">>, <<"dingtalk", "u3">>}

\* The users offline messages are kept for.
OfflineUsers == {<<"telegram", "u1">>, <<"telegram", "u2">>}

\* The platforms an adapter exists for.
Platforms == {"telegram", "dingtalk"}
\* The ids of the instances of the registry (secrets.token_urlsafe(16)).
InstanceIds == {"i1", "i2"}
\* The ids the backend gives its sessions.
SessionIds == {"s1", "s2"}
\* The type of a real backend event.
MESSAGE_UPDATED == "message.updated"

\* The OpenCodeEvent objects the subscriber hands to its callback: real events
\* parsed by from_dict, with or without a sessionID and with or without an
\* "instance_id" key of their own in the payload, and the two synthetic
\* events, which have no session and the payload the subscriber gives them.
CallbackEvents ==
    {[type |-> MESSAGE_UPDATED, session_id |-> sid, data_instance_id |-> k] :
        sid \in SessionIds \cup {None}, k \in {"i1", None}}
    \cup {[type |-> ty, session_id |-> None, data_instance_id |-> None] :
            ty \in {CONNECTION_LOST, CONNECTION_RESTORED}}

\* The event dicts route() is called with directly: one per routing key, the
\* key being an instance id, absent or empty.
RouteDicts ==
    {[type |-> MESSAGE_UPDATED, instance_id |-> k, sessionID |-> None] :
        k \in InstanceIds \cup {None, ""}}

\* exclude = None, the default of broadcast(): no (platform, user_id) pair.
NoExclude == <<>>

\* No event dict has been passed to route yet.
NoEventDict == [type |-> "none", instance_id |-> None, sessionID |-> None]

VARIABLES
    running,                 \* self._running
    state,                   \* self._state (= self._stats.current_state)
    stats,                   \* self._stats: total_events, total_reconnects
    reconnect_delay,         \* self._reconnect_delay
    reconnect_attempts,      \* self._reconnect_attempts
    max_reconnect_attempts,  \* self._max_reconnect_attempts
    task,                    \* self._task: a task id or NoneTask
    tasks,                   \* the loop tasks created by start(), by id
    stopPc,                  \* where the stop() call in progress is
    stopAwait,               \* the task that stop() awaits
    api,                     \* history: how the last start()/stop() call went
    everStopped,             \* history: stop() has been called
    hinted,                  \* history: a retry: line set the delay since its reset
    drops,                   \* history: attempts and sessions that ended
    synthLog,                \* history: the synthetic events handed to the callback
    wire,                    \* history: the lines _process_line got on this connection
    calls                    \* history: the positions in wire the callback was invoked for

VARIABLES
    adapters,                \* Application.adapters, as the list of their platforms
    opencode_session_id,     \* Instance.opencode_session_id of each instance
    bindings,                \* the bindings table of SessionManager
    online_users,            \* NotificationRouter._online_users
    routePc,                 \* where the route() call in progress is
    routed,                  \* the event dict of the last route() call
    routePending,            \* the recipients of that call not yet served
    sends,                   \* history: the send_event calls of that call, in order
    routeSnapshot,           \* history: the recipients that call started with
    regOrder                 \* history: the online users of each instance, in
                             \* the order they were registered

VARIABLES
    bcPc,                    \* where the broadcast() call in progress is
    bcArgs,                  \* instance_id and exclude of the last broadcast() call
    bcPending,               \* the recipients of that call not yet served
    texts,                   \* history: the send_text calls of that call, in order
    bcSnapshot               \* history: the users online for the instance at the call

VARIABLES
    appPc,                   \* where Application.run() is
    appIdx,                  \* the position in adapters of its for loops
    polling,                 \* each platform's polling loop: off, running, ended
    stopBegun,               \* history: the platforms whose adapter.stop() was called
    shutdown_event           \* Application._shutdown_event is set

VARIABLES
    consecutive_failures,    \* OpenCodeClient._consecutive_failures
    clientCall,              \* the API call in progress: its kind and attempt number
    clientLast,              \* history: how the last attempt ended
    failedCalls              \* history: API calls that failed since the last success

VARIABLES
    offline,                 \* the rows of table offline_messages, in rowid order
    got,                     \* the list the last get_offline_messages returned
    saves,                   \* history: the number of save_offline_message calls
    savedSince               \* history: each user's messages saved since the
                             \* user's last get_offline_messages

VARIABLES
    instances,               \* InstanceRegistry._instances: id -> Instance
    issued,                  \* history: the connect secrets generated so far
    qrPending,               \* the QR payload handler waiting in bind_user
    qrReply                  \* the handler's answer to the last QR payload

subscriberVars ==
    <<running, state, stats, reconnect_delay, reconnect_attempts,
      max_reconnect_attempts, task, tasks, stopPc, stopAwait, api, everStopped,
      hinted, drops, synthLog, wire, calls>>

routeVars ==
    <<adapters, opencode_session_id, bindings, online_users, routePc, routed,
      routePending, sends, routeSnapshot, regOrder>>

broadcastVars == <<bcPc, bcArgs, bcPending, texts, bcSnapshot>>

appVars == <<appPc, appIdx, polling, stopBegun, shutdown_event>>

clientVars == <<consecutive_failures, clientCall, clientLast, failedCalls>>

\* The state of the objects of the core other than subscriber and router.
sessionVars == <<offline, got, saves, savedSince>>

instanceVars == <<instances, issued>>

bindVars == <<qrPending, qrReply>>

coreVars == <<clientVars, sessionVars, instanceVars, bindVars>>

vars == <<subscriberVars, routeVars, broadcastVars, appVars, coreVars>>

\* A step of the subscriber: the orchestrator and the router are not involved.
NoRouting == UNCHANGED <<routeVars, broadcastVars, appVars, coreVars>>

\* A step of the orchestrator, the router or an adapter's handler.
NoSubscriber == UNCHANGED subscriberVars

\* A step in which broadcast() has no part.
NoBroadcast == UNCHANGED broadcastVars

\* A step in which Application.run() and the polling loops have no part.
NoApp == UNCHANGED <<appVars, coreVars>>

\* A step of the subscriber with the history of the lines not kept.
NoLineHistory == UNCHANGED <<wire, calls>> /\ NoRouting

\* A task slot nobody has used yet.
NoTask ==
    [pc |-> "none", cancelReq |-> FALSE, result |-> "none", lastEnd |-> "none",
     established |-> FALSE, sleepFor |-> 0]

\* asyncio.create_task(self._subscribe_loop(callback)): not yet run.
NewTask == [NoTask EXCEPT !.pc = "new"]

Alive(t) == tasks[t].pc \notin {"none", "done"}

\* A finished task: returned ("ok"), cancelled, or ended by an exception.
Finished(t, res) == [tasks[t] EXCEPT !.pc = "done", !.result = res, !.cancelReq = FALSE]

Min(a, b) == IF a <= b THEN a ELSE b
Max(a, b) == IF a >= b THEN a ELSE b

InitSubscriber(caps) ==
    /\ running = FALSE
    /\ state = DISCONNECTED
    /\ stats = [total_events |-> 0, total_reconnects |-> 0]
    /\ reconnect_delay = MinDelay
    /\ reconnect_attempts = 0
    /\ max_reconnect_attempts \in caps
    /\ task = NoneTask
    /\ tasks = [t \in TaskIds |-> NoTask]
    /\ stopPc = "idle"
    /\ stopAwait = NoneTask
    /\ api = "fresh"
    /\ everStopped = FALSE
    /\ hinted = FALSE
    /\ drops = 0
    /\ synthLog = <<>>
    /\ wire = <<>>
    /\ calls = <<>>

\* The application after _init_adapters: instances without a backend session,
\* nobody bound, nobody online, no event routed.
InitRouting(lists) ==
    /\ adapters \in lists
    /\ opencode_session_id = [i \in InstanceIds |-> ""]
    /\ bindings = {}
    /\ online_users = [k \in {} |-> {}]
    /\ routePc = "idle"
    /\ routed = NoEventDict
    /\ routePending = {}
    /\ sends = <<>>
    /\ routeSnapshot = {}
    /\ regOrder = [i \in InstanceIds |-> <<>>]
    /\ bcPc = "idle"
    /\ bcArgs = [instance_id |-> None, exclude |-> NoExclude]
    /\ bcPending = {}
    /\ texts = <<>>
    /\ bcSnapshot = {}
    /\ appPc = "startAdapters"
    /\ appIdx = 1
    /\ polling = [p \in Platforms |-> "off"]
    /\ stopBegun = {}
    /\ shutdown_event = FALSE
    /\ consecutive_failures = 0
    /\ clientCall = NoCall
    /\ clientLast = "none"
    /\ failedCalls = 0
    /\ offline = <<>>
    /\ got = <<>>
    /\ saves = 0
    /\ savedSince = [u \in OfflineUsers |-> {}]
    /\ instances = [i \in {} |-> {}]
    /\ issued = {}
    /\ qrPending = NoPending
    /\ qrReply = "none"

\* A subscriber constructed with any of the caps; both adapters configured.
Init ==
    /\ InitSubscriber(AttemptCaps)
    /\ InitRouting({<<"telegram", "dingtalk">>})

\* The subscriber as Application constructs it (no cap), with one or both
\* adapters configured.
InitRoute ==
    /\ InitSubscriber({NoCap})
    /\ InitRouting(AdapterLists)

\* ------------------------------------------------ EventSubscriber.start
\* start(callback), called with slot t free for the task it creates.
StartBody(t) ==
    /\ api' = "started"
    /\ IF running
       THEN \* "subscriber_already_running": return
            UNCHANGED <<running, reconnect_delay, reconnect_attempts, hinted,
                        state, task, tasks>>
       ELSE /\ running' = TRUE
            /\ reconnect_delay' = MinDelay
            /\ reconnect_attempts' = 0
            /\ hinted' = FALSE
            /\ state' = CONNECTING
            /\ task' = t
            /\ tasks' = [tasks EXCEPT ![t] = NewTask]
    /\ UNCHANGED <<stats, max_reconnect_attempts, stopPc, stopAwait,
                   everStopped, drops, synthLog>>

\* The slot start() puts its new task in: the first one that holds no live
\* task and that no stop() is still awaiting.
FreeSlot(t) ==
    /\ ~Alive(t)
    /\ stopAwait # t
    /\ \A u \in TaskIds : (u < t) => (Alive(u) \/ stopAwait = u)

\* start() called while no other call on the subscriber is in progress.
Start ==
    /\ stopPc = "idle"
    /\ \E t \in TaskIds : FreeSlot(t) /\ StartBody(t)

\* start() called by another coroutine while a stop() is suspended at
\* `await self._task`.
StartWhileStopping ==
    /\ stopPc = "awaiting"
    /\ \E t \in TaskIds : FreeSlot(t) /\ StartBody(t)

\* ------------------------------------------------- EventSubscriber.stop
\* stop() with a missing `if self._task:` test: None has no cancel().
AwaitOutcomeUnguarded ==
    IF task = NoneTask THEN "raise"
    ELSE IF tasks[task].pc # "done" THEN "suspend"
    ELSE IF tasks[task].result = "error" THEN "raise"
    ELSE "return"

\* What `if self._task: self._task.cancel(); await self._task` comes to:
\* skipped without a task; with a live task the call suspends; with a task
\* that is done cancel() does nothing and the await returns at once, or
\* raises the exception the task ended with (suppress() lets only
\* CancelledError pass).
AwaitOutcome ==
    IF task = NoneTask THEN "skip"
    ELSE IF tasks[task].pc # "done" THEN "suspend"
    ELSE IF tasks[task].result = "error" THEN "raise"
    ELSE "return"

\* stop() that does not wait for the cancelled task.
AwaitNothing(t) == TRUE

\* `await self._task` resumes when the task is done.
AwaitCompletes(t) == tasks[t].pc = "done"

\* stop() up to its suspension at `await self._task`; the whole call when the
\* await does not suspend (no task, or a task that is already done).
StopBegin ==
    /\ stopPc = "idle"
    /\ running' = FALSE
    /\ state' = DISCONNECTED
    /\ everStopped' = TRUE
    /\ CASE AwaitOutcome = "skip" ->
            /\ api' = "stopped"
            /\ UNCHANGED <<task, tasks, stopPc, stopAwait>>
         [] AwaitOutcome = "return" ->
            /\ api' = "stopped"
            /\ task' = NoneTask
            /\ UNCHANGED <<tasks, stopPc, stopAwait>>
         [] AwaitOutcome = "raise" ->
            \* the exception leaves stop(); `self._task = None` is not reached
            /\ api' = "stop_raised"
            /\ UNCHANGED <<task, tasks, stopPc, stopAwait>>
         [] AwaitOutcome = "suspend" ->
            /\ tasks' = [tasks EXCEPT ![task].cancelReq = TRUE]
            /\ stopPc' = "awaiting"
            /\ stopAwait' = task
            /\ api' = "stopping"
            /\ task' = task
    /\ UNCHANGED <<stats, reconnect_delay, reconnect_attempts,
                   max_reconnect_attempts, hinted, drops, synthLog>>

\* stop() resumed once the awaited task is done.
StopEnd ==
    /\ stopPc = "awaiting"
    /\ AwaitCompletes(stopAwait)
    /\ stopPc' = "idle"
    /\ stopAwait' = NoneTask
    /\ IF tasks[stopAwait].result = "error"
       THEN api' = "stop_raised" /\ task' = task
       ELSE api' = "stopped" /\ task' = NoneTask
    /\ UNCHANGED <<running, state, stats, reconnect_delay, reconnect_attempts,
                   max_reconnect_attempts, tasks, everStopped, hinted, drops,
                   synthLog>>

\* --------------------------------------- EventSubscriber._subscribe_loop
\* The task ends without an exception: the loop was left by `break` or by its
\* `while self._running` test, and _set_state(DISCONNECTED) has run.
LoopExit(t, kind) ==
    /\ state' = DISCONNECTED
    /\ tasks' = [tasks EXCEPT ![t] = [Finished(t, "ok") EXCEPT !.lastEnd = kind]]

\* The top of the loop, `while self._running`, up to the await of the HTTP
\* connection in _subscribe; base is the task record to continue from.
LoopTop(t, base) ==
    IF running
    THEN /\ state' = CONNECTING
         /\ tasks' = [tasks EXCEPT ![t] = [base EXCEPT !.pc = "connecting"]]
    ELSE /\ state' = DISCONNECTED
         /\ tasks' = [tasks EXCEPT ![t] = [base EXCEPT !.pc = "done", !.result = "ok"]]

\* First step of a new task.
LoopStart(t) ==
    /\ tasks[t].pc = "new"
    /\ ~tasks[t].cancelReq
    /\ LoopTop(t, tasks[t])
    /\ UNCHANGED <<running, stats, reconnect_delay, reconnect_attempts,
                   max_reconnect_attempts, task, stopPc, stopAwait, api,
                   everStopped, hinted, drops, synthLog>>

\* "Handle reconnection": the code after the try statement, up to the await of
\* the _connection.lost callback, entered with delay d and attempt counter a
\* after the attempt or session ended the way `kind` says.
Reconnect(t, d, a, kind) ==
    IF running
    THEN /\ stats.total_reconnects < MaxReconnects
         /\ reconnect_attempts' = a + 1
         /\ stats' = [stats EXCEPT !.total_reconnects = @ + 1]
         /\ reconnect_delay' = d
         /\ drops' = drops + 1
         /\ IF max_reconnect_attempts # NoCap /\ a + 1 >= max_reconnect_attempts
            THEN \* "max_reconnect_attempts_reached": break
                 /\ LoopExit(t, kind)
                 /\ synthLog' = synthLog
            ELSE /\ state' = RECONNECTING
                 /\ tasks' = [tasks EXCEPT ![t] =
                        [@ EXCEPT !.pc = "lostCb", !.lastEnd = kind, !.sleepFor = 0]]
                 /\ synthLog' = Append(synthLog,
                        [type |-> CONNECTION_LOST, arg |-> d, drops |-> drops + 1])
    ELSE \* no reconnect; `while self._running` ends the loop
         /\ reconnect_attempts' = a
         /\ reconnect_delay' = d
         /\ LoopExit(t, kind)
         /\ UNCHANGED <<stats, drops, synthLog>>

\* A clean exit that resets nothing.
CleanExitNoReset(t) ==
    /\ hinted' = hinted
    /\ Reconnect(t, reconnect_delay, reconnect_attempts, "clean")

\* _subscribe returned: "If we exit cleanly, reset counters", then the
\* reconnection code like after any other end.
CleanExit(t) ==
    /\ hinted' = FALSE
    /\ Reconnect(t, MinDelay, 0, "clean")

\* A loop that grows the delay before the sleep instead of after it.
LostCbReturnsGrown(t) ==
    /\ tasks[t].pc = "lostCb"
    /\ ~tasks[t].cancelReq
    /\ tasks' = [tasks EXCEPT ![t] =
           [@ EXCEPT !.pc = "sleeping", !.sleepFor = reconnect_delay * 2]]
    /\ UNCHANGED <<running, state, stats, reconnect_delay, reconnect_attempts,
                   max_reconnect_attempts, task, stopPc, stopAwait, api,
                   everStopped, hinted, drops, synthLog>>

\* The callback returns from the _connection.lost event: asyncio.sleep starts.
LostCbReturns(t) ==
    /\ tasks[t].pc = "lostCb"
    /\ ~tasks[t].cancelReq
    /\ tasks' = [tasks EXCEPT ![t] = [@ EXCEPT !.pc = "sleeping", !.sleepFor = reconnect_delay]]
    /\ UNCHANGED <<running, state, stats, reconnect_delay, reconnect_attempts,
                   max_reconnect_attempts, task, stopPc, stopAwait, api,
                   everStopped, hinted, drops, synthLog>>

\* The callback raises on the _connection.lost event: the call is outside the
\* try statement, so the exception ends the task.
LostCbRaises(t) ==
    /\ tasks[t].pc = "lostCb"
    /\ ~tasks[t].cancelReq
    /\ tasks' = [tasks EXCEPT ![t] = Finished(t, "error")]
    /\ UNCHANGED <<running, state, stats, reconnect_delay, reconnect_attempts,
                   max_reconnect_attempts, task, stopPc, stopAwait, api,
                   everStopped, hinted, drops, synthLog>>

\* A backoff without the cap.
BackoffNoCap(d, j) == (d * 2 * j) \div 10

\* The delay after the sleep: "Exponential backoff with jitter".
Backoff(d, j) == Min((d * 2 * j) \div 10, MaxDelay)

\* The sleep ends: the delay grows and the loop goes round.
SleepDone(t) ==
    /\ tasks[t].pc = "sleeping"
    /\ ~tasks[t].cancelReq
    /\ \E j \in Jitters : reconnect_delay' = Backoff(reconnect_delay, j)
    /\ LoopTop(t, [tasks[t] EXCEPT !.established = FALSE])
    /\ UNCHANGED <<running, stats, reconnect_attempts, max_reconnect_attempts,
                   task, stopPc, stopAwait, api, everStopped, hinted, drops,
                   synthLog>>

\* ------------------------------------------- EventSubscriber._subscribe
\* A connect that leaves the grown delay in place.
KeepDelayOnConnect == reconnect_delay

\* `self._reconnect_delay = self._min_reconnect_delay` on a connection.
ResetDelayOnConnect == MinDelay

\* A restored event that carries _reconnect_attempts, reset just before it.
RestoredEventOfAttempts ==
    [type |-> CONNECTION_RESTORED, arg |-> reconnect_attempts', drops |-> drops]

\* The _connection.restored event: reconnect_count is total_reconnects.
RestoredEvent ==
    [type |-> CONNECTION_RESTORED, arg |-> stats.total_reconnects, drops |-> drops]

\* A subscriber that announces every connection as restored.
RestoredDueAlways == TRUE

\* "Emit connection restored event if this was a reconnect".
RestoredDue == stats.total_reconnects > 0

\* The response arrives with a status raise_for_status accepts.
ConnectOk(t) ==
    /\ tasks[t].pc = "connecting"
    /\ ~tasks[t].cancelReq
    /\ state' = CONNECTED
    /\ reconnect_delay' = ResetDelayOnConnect
    /\ reconnect_attempts' = 0
    /\ hinted' = FALSE
    /\ IF RestoredDue
       THEN /\ Len(synthLog) < MaxLog
            /\ tasks' = [tasks EXCEPT ![t] =
                   [@ EXCEPT !.pc = "restoredCb", !.established = TRUE,
                             !.lastEnd = "none", !.sleepFor = 0]]
            /\ synthLog' = Append(synthLog, RestoredEvent)
       ELSE /\ tasks' = [tasks EXCEPT ![t] =
                   [@ EXCEPT !.pc = "reading", !.established = TRUE,
                             !.lastEnd = "none", !.sleepFor = 0]]
            /\ synthLog' = synthLog
    /\ UNCHANGED <<running, stats, max_reconnect_attempts, task, stopPc,
                   stopAwait, api, everStopped, drops>>

\* The attempt fails: a network error, some other exception, or an HTTP status
\* other than 401/403.
ConnectFail(t) ==
    /\ tasks[t].pc = "connecting"
    /\ ~tasks[t].cancelReq
    /\ \E e \in NetErrors \cup OtherErrors \cup HttpRetriable :
          Reconnect(t, reconnect_delay, reconnect_attempts, IF e \in HttpRetriable THEN "http" ELSE "error")
    /\ UNCHANGED <<running, max_reconnect_attempts, task, stopPc, stopAwait,
                   api, everStopped, hinted>>

\* The attempt is answered with 401 or 403: "auth_error_stopping", break.
ConnectAuthFail(t) ==
    /\ tasks[t].pc = "connecting"
    /\ ~tasks[t].cancelReq
    /\ \E code \in HttpAuth : LoopExit(t, "auth")
    /\ UNCHANGED <<running, stats, reconnect_delay, reconnect_attempts,
                   max_reconnect_attempts, task, stopPc, stopAwait, api,
                   everStopped, hinted, drops, synthLog>>

\* The callback returns from the _connection.restored event.
RestoredCbReturns(t) ==
    /\ tasks[t].pc = "restoredCb"
    /\ ~tasks[t].cancelReq
    /\ tasks' = [tasks EXCEPT ![t].pc = "reading"]
    /\ UNCHANGED <<running, state, stats, reconnect_delay, reconnect_attempts,
                   max_reconnect_attempts, task, stopPc, stopAwait, api,
                   everStopped, hinted, drops, synthLog>>

\* The callback raises on the _connection.restored event: the exception leaves
\* _subscribe, closing the stream, and reaches `except Exception` of the loop.
RestoredCbRaises(t) ==
    /\ tasks[t].pc = "restoredCb"
    /\ ~tasks[t].cancelReq
    /\ Reconnect(t, reconnect_delay, reconnect_attempts, "callback")
    /\ UNCHANGED <<running, max_reconnect_attempts, task, stopPc, stopAwait,
                   api, everStopped, hinted>>

\* The retry: hint in seconds, clamped; ms / 1000 s is ms / 8 units.
\* A subscriber that takes the hint as it comes.
RetryDelayUnclamped(ms) == ms \div 8

RetryDelay(ms) == Max(MinDelay, Min(ms \div 8, MaxDelay))

\* ---------------------------------------- EventSubscriber._process_line
\* A subscriber that also hands undecodable data: lines to the callback.
DeliversUndecoded(line) == line.kind \in {"data", "data_badjson"}

\* A subscriber that also invokes the callback for event: lines.
DeliversEventLines(line) == line.kind \in {"data", "event"}

\* The lines that reach `await callback(event)`: data: lines whose payload is
\* not blank, parses as JSON and is an object from_dict accepts.
Delivers(line) == line.kind = "data"

\* One turn of `async for line in response.aiter_lines()` with the line read.
LineStep(t, line) ==
    IF ~running
    THEN \* `if not self._running: break`: _subscribe returns
         CleanExit(t)
    ELSE CASE Delivers(line) ->
              /\ stats.total_events < MaxEvents
              /\ stats' = [stats EXCEPT !.total_events = @ + 1]
              /\ tasks' = [tasks EXCEPT ![t].pc = "eventCb"]
              /\ UNCHANGED <<state, reconnect_delay, reconnect_attempts,
                             hinted, drops, synthLog>>
           [] line.kind = "retry" ->
              /\ reconnect_delay' = RetryDelay(line.arg)
              /\ hinted' = TRUE
              /\ UNCHANGED <<state, stats, reconnect_attempts, tasks,
                             drops, synthLog>>
           [] OTHER ->
              UNCHANGED <<state, stats, reconnect_delay,
                          reconnect_attempts, tasks, hinted, drops,
                          synthLog>>

\* One line of the stream arrives.
ReadLine(t) ==
    /\ tasks[t].pc = "reading"
    /\ ~tasks[t].cancelReq
    /\ \E line \in Lines : LineStep(t, line)
    /\ UNCHANGED <<running, max_reconnect_attempts, task, stopPc, stopAwait,
                   api, everStopped>>

\* The callback returns from a real event.
EventCbReturns(t) ==
    /\ tasks[t].pc = "eventCb"
    /\ ~tasks[t].cancelReq
    /\ tasks' = [tasks EXCEPT ![t].pc = "reading"]
    /\ UNCHANGED <<running, state, stats, reconnect_delay, reconnect_attempts,
                   max_reconnect_attempts, task, stopPc, stopAwait, api,
                   everStopped, hinted, drops, synthLog>>

\* The callback raises on a real event: "event_callback_error" is logged and
\* _process_line returns.
EventCbRaises(t) ==
    /\ tasks[t].pc = "eventCb"
    /\ ~tasks[t].cancelReq
    /\ tasks' = [tasks EXCEPT ![t].pc = "reading"]
    /\ UNCHANGED <<running, state, stats, reconnect_delay, reconnect_attempts,
                   max_reconnect_attempts, task, stopPc, stopAwait, api,
                   everStopped, hinted, drops, synthLog>>

\* The server closes the stream: aiter_lines ends and _subscribe returns; the
\* loop resets its counters ("If we exit cleanly, reset counters").
StreamClose(t) ==
    /\ tasks[t].pc = "reading"
    /\ ~tasks[t].cancelReq
    /\ CleanExit(t)
    /\ UNCHANGED <<running, max_reconnect_attempts, task, stopPc, stopAwait,
                   api, everStopped>>

\* The open stream fails with a network error or another exception.
StreamError(t) ==
    /\ tasks[t].pc = "reading"
    /\ ~tasks[t].cancelReq
    /\ \E e \in NetErrors \cup OtherErrors : Reconnect(t, reconnect_delay, reconnect_attempts, "error")
    /\ UNCHANGED <<running, max_reconnect_attempts, task, stopPc, stopAwait,
                   api, everStopped, hinted>>

\* ------------------------------------------------------- cancellation
\* The awaits inside the try statement of _subscribe_loop.
InsideTry == {"connecting", "restoredCb", "reading", "eventCb"}
\* The awaits outside it, and a task that has not run yet.
OutsideTry == {"new", "lostCb", "sleeping"}

\* task.cancel() takes effect: CancelledError is raised at the await the task
\* is suspended at.  Inside the try it is caught (`break`) and the task sets
\* DISCONNECTED and returns; outside it ends the task.
CancelDelivered(t) ==
    /\ tasks[t].cancelReq
    /\ tasks[t].pc \in InsideTry \cup OutsideTry
    /\ IF tasks[t].pc \in InsideTry
       THEN /\ state' = DISCONNECTED
            /\ tasks' = [tasks EXCEPT ![t] = Finished(t, "ok")]
       ELSE /\ state' = state
            /\ tasks' = [tasks EXCEPT ![t] = Finished(t, "cancelled")]
    /\ UNCHANGED <<running, stats, reconnect_delay, reconnect_attempts,
                   max_reconnect_attempts, task, stopPc, stopAwait, api,
                   everStopped, hinted, drops, synthLog>>

\* ---------------------------------------------- NotificationRouter
\* get_online_users(instance_id): the members of the list it returns.
GetOnlineUsers(k) == IF k \in DOMAIN online_users THEN online_users[k] ELSE {}

\* get_online_users(k) on the registry reg: the members of the list.
OnlineIn(reg, k) == IF k \in DOMAIN reg THEN reg[k] ELSE {}

\* list(S) of a set S: its members, each once, in some order.
ListsOf(S) ==
    {q \in [1..Cardinality(S) -> S] : \A x \in S : \E n \in DOMAIN q : q[n] = x}

\* A registry that keeps a pair on unregister_online.
UnregisteredKeeps(i, pu) == online_users

\* The registry after register_online(i, p, u), pu being (p, u).
Registered(i, pu) ==
    [k \in DOMAIN online_users \cup {i} |->
        IF k = i THEN GetOnlineUsers(i) \cup {pu} ELSE online_users[k]]

\* The registry after unregister_online(i, p, u): discard, for a known key.
Unregistered(i, pu) ==
    IF i \in DOMAIN online_users
    THEN [online_users EXCEPT ![i] = @ \ {pu}]
    ELSE online_users

\* Sequence q without the element x.
Without(q, x) == SelectSeq(q, LAMBDA y : y # x)

\* register_online(i, p, u).
RegisterOnline(i, pu) ==
    /\ online_users' = Registered(i, pu)
    /\ regOrder' = [regOrder EXCEPT ![i] =
                       IF pu \in GetOnlineUsers(i) THEN @ ELSE Append(@, pu)]

\* unregister_online(i, p, u).
UnregisterOnline(i, pu) ==
    /\ online_users' = Unregistered(i, pu)
    /\ regOrder' = [regOrder EXCEPT ![i] = Without(@, pu)]

\* ------------------------------------- adapters: binding by QR code
\* An adapter of platform p gets the QR payload of instance i from user u:
\* when verify_connect_secret accepts the secret the user is bound and
\* registered online, otherwise nothing changes.
HandleQrBind(p, u, i, secretOk) ==
    /\ \E n \in 1..Len(adapters) : adapters[n] = p
    /\ IF secretOk
       THEN /\ bindings' = bindings \cup {<<p, u, i>>}
            /\ RegisterOnline(i, <<p, u>>)
       ELSE UNCHANGED <<bindings, online_users, regOrder>>
    /\ UNCHANGED <<adapters, opencode_session_id, routePc, routed,
                   routePending, sends, routeSnapshot>>

\* The first message of a Telegram user bound to instance i: the instance has
\* no backend session yet, one is created and its id stored.
EnsureSession(i) ==
    /\ \E pu \in Users : pu[1] = "telegram" /\ <<pu[1], pu[2], i>> \in bindings
    /\ opencode_session_id[i] = ""
    /\ \E sid \in SessionIds :
          /\ \A j \in InstanceIds : opencode_session_id[j] # sid
          /\ opencode_session_id' = [opencode_session_id EXCEPT ![i] = sid]
    /\ UNCHANGED <<adapters, bindings, online_users, routePc, routed,
                   routePending, sends, routeSnapshot, regOrder>>

\* ------------------------------------ Application._on_opencode_event
\* The dict built from the event: "instance_id" is the event's session_id,
\* unless the payload, spread last, has an "instance_id" key of its own.
EventDict(e) ==
    [type |-> e.type,
     instance_id |-> IF e.data_instance_id # None THEN e.data_instance_id
                     ELSE e.session_id,
     sessionID |-> e.session_id]

\* ------------------------------------------- NotificationRouter.route
\* A route() that serves users whatever the routing key of the event.
RecipientsOfAll(d) == UNION {GetOnlineUsers(k) : k \in DOMAIN online_users}

\* The snapshot route(d, adapters) starts with: nobody for an event without a
\* routing key ("event_missing_instance_id"), else list(online users).
Recipients(d) ==
    IF d.instance_id \in {None, ""} THEN {} ELSE GetOnlineUsers(d.instance_id)

\* route(d, adapters) up to its first suspension.  routeSnapshot records who
\* is online under the event's key when the call is made.
RouteBody(d) ==
    /\ routed' = d
    /\ sends' = <<>>
    /\ routeSnapshot' = IF d.instance_id \in DOMAIN online_users
                        THEN online_users[d.instance_id] ELSE {}
    /\ routePending' = Recipients(d)
    /\ routePc' = IF routePending' = {} THEN "idle" ELSE "sending"

\* The subscriber awaits callback(e): the dict is built and passed to route().
OnOpencodeEvent(e) ==
    /\ routePc = "idle"
    /\ RouteBody(EventDict(e))
    /\ UNCHANGED <<adapters, opencode_session_id, bindings, online_users,
                   regOrder>>

\* A fan-out that an exception of send_event ends.
PendingAfterAbort(pu, raised) == IF raised THEN {} ELSE routePending \ {pu}

\* A fan-out that goes by the registry as it is now, not by its snapshot.
PendingAfterLive(pu, raised) ==
    (routePending \ {pu}) \cap GetOnlineUsers(routed.instance_id)

\* The recipients left once pu is served: `except Exception` logs
\* "send_event_failed" and the loop over the snapshot goes on.
PendingAfter(pu, raised) == routePending \ {pu}

\* A fan-out that offers the event to every adapter, whatever its platform.
SendsToEveryAdapter(pu, raised) ==
    [n \in 1..Len(adapters) |->
        [platform |-> adapters[n], user_id |-> pu[2], event |-> routed,
         raised |-> raised]]

\* The send_event calls made for recipient pu: one on each adapter of the
\* list whose platform is the recipient's.
SendsTo(pu, raised) ==
    [n \in 1..Len(SelectSeq(adapters, LAMBDA a : a = pu[1])) |->
        [platform |-> pu[1], user_id |-> pu[2], event |-> routed,
         raised |-> raised]]

\* The next recipient of the fan-out is served: send_event is awaited on the
\* adapter of the recipient's platform and returns or raises; a recipient
\* whose platform has no adapter is passed over.  After the last recipient
\* route() returns.
RouteSend ==
    /\ routePc = "sending"
    /\ \E pu \in routePending, raised \in BOOLEAN :
          /\ sends' = sends \o SendsTo(pu, raised)
          /\ routePending' = PendingAfter(pu, raised)
    /\ routePc' = IF routePending' = {} THEN "idle" ELSE "sending"
    /\ UNCHANGED <<adapters, opencode_session_id, bindings, online_users,
                   routed, routeSnapshot, regOrder>>

\* ------------------------------------------------------ specifications
TaskStep(t) ==
    \/ LoopStart(t) /\ NoLineHistory
    \/ ConnectOk(t) /\ NoLineHistory
    \/ ConnectFail(t) /\ NoLineHistory
    \/ ConnectAuthFail(t) /\ NoLineHistory
    \/ RestoredCbReturns(t) /\ NoLineHistory
    \/ RestoredCbRaises(t) /\ NoLineHistory
    \/ ReadLine(t) /\ NoLineHistory
    \/ EventCbReturns(t) /\ NoLineHistory
    \/ EventCbRaises(t) /\ NoLineHistory
    \/ StreamClose(t) /\ NoLineHistory
    \/ StreamError(t) /\ NoLineHistory
    \/ LostCbReturns(t) /\ NoLineHistory
    \/ LostCbRaises(t) /\ NoLineHistory
    \/ SleepDone(t) /\ NoLineHistory
    \/ CancelDelivered(t) /\ NoLineHistory

\* One owner calls start() and stop() and awaits each call before the next,
\* as Application._start_services and _stop_services do.
Next ==
    \/ Start /\ NoLineHistory
    \/ StopBegin /\ NoLineHistory
    \/ StopEnd /\ NoLineHistory
    \/ \E t \in TaskIds : TaskStep(t)

Spec == Init /\ [][Next]_vars

\* Several coroutines call start() and stop(): a start() may run while a
\* stop() is suspended.  The server here accepts every connection and keeps
\* the stream open.
NextConc ==
    \/ Start /\ NoLineHistory
    \/ StartWhileStopping /\ NoLineHistory
    \/ StopBegin /\ NoLineHistory
    \/ StopEnd /\ NoLineHistory
    \/ \E t \in TaskIds :
          \/ LoopStart(t) /\ NoLineHistory
          \/ ConnectOk(t) /\ NoLineHistory
          \/ ReadLine(t) /\ NoLineHistory
          \/ EventCbReturns(t) /\ NoLineHistory
          \/ CancelDelivered(t) /\ NoLineHistory

SpecConc == Init /\ [][NextConc]_vars

\* A connection opens: the history of its lines starts empty.
ConnectOkLogged(t) ==
    /\ ConnectOk(t)
    /\ wire' = <<>>
    /\ calls' = <<>>
    /\ NoRouting

\* ReadLine, with the line it handed to _process_line recorded in wire and,
\* when the step invoked the callback, its position recorded in calls.
ReadLineLogged(t) ==
    /\ tasks[t].pc = "reading"
    /\ ~tasks[t].cancelReq
    /\ Len(wire) < MaxWire
    /\ \E line \in Lines :
          /\ LineStep(t, line)
          /\ wire' = IF running THEN Append(wire, line.kind) ELSE wire
    /\ calls' = IF tasks'[t].pc = "eventCb" THEN Append(calls, Len(wire')) ELSE calls
    /\ UNCHANGED <<running, max_reconnect_attempts, task, stopPc, stopAwait,
                   api, everStopped>>
    /\ NoRouting

\* stop() is called: the connection is on its way out and its history is
\* dropped.
StopBeginLogged ==
    /\ StopBegin
    /\ wire' = <<>>
    /\ calls' = <<>>
    /\ NoRouting

\* The subscriber against a server that accepts every connection and keeps
\* the stream open, with the history of the lines of each connection.
NextLines ==
    \/ Start /\ NoLineHistory
    \/ StopBeginLogged
    \/ StopEnd /\ NoLineHistory
    \/ \E t \in TaskIds :
          \/ LoopStart(t) /\ NoLineHistory
          \/ ConnectOkLogged(t)
          \/ ReadLineLogged(t)
          \/ EventCbReturns(t) /\ NoLineHistory
          \/ EventCbRaises(t) /\ NoLineHistory
          \/ CancelDelivered(t) /\ NoLineHistory

SpecLines == Init /\ [][NextLines]_vars

\* The orchestrator's callback, the router and the binding handlers of the
\* adapters; the subscriber is represented by the events it hands over.
NextRoute ==
    \/ \E pu \in Users, i \in InstanceIds, ok \in BOOLEAN :
          HandleQrBind(pu[1], pu[2], i, ok) /\ NoBroadcast /\ NoSubscriber /\ NoApp
    \/ \E i \in InstanceIds : EnsureSession(i) /\ NoBroadcast /\ NoSubscriber /\ NoApp
    \/ \E e \in CallbackEvents : OnOpencodeEvent(e) /\ NoBroadcast /\ NoSubscriber /\ NoApp
    \/ RouteSend /\ NoBroadcast /\ NoSubscriber /\ NoApp

SpecRoute == InitRoute /\ [][NextRoute]_vars

\* The router on its own: users come online and go offline for any instance
\* at any time, also during a fan-out, and route() is called with any event.
RegisterOnlineCall(i, pu) ==
    /\ RegisterOnline(i, pu)
    /\ UNCHANGED <<adapters, opencode_session_id, bindings, routePc, routed,
                   routePending, sends, routeSnapshot>>

UnregisterOnlineCall(i, pu) ==
    /\ UnregisterOnline(i, pu)
    /\ UNCHANGED <<adapters, opencode_session_id, bindings, routePc, routed,
                   routePending, sends, routeSnapshot>>

RouteCall(d) ==
    /\ routePc = "idle"
    /\ RouteBody(d)
    /\ UNCHANGED <<adapters, opencode_session_id, bindings, online_users,
                   regOrder>>

NextRouter ==
    \/ \E i \in InstanceIds, pu \in Users :
          RegisterOnlineCall(i, pu) /\ NoBroadcast /\ NoSubscriber /\ NoApp
    \/ \E i \in InstanceIds, pu \in Users :
          UnregisterOnlineCall(i, pu) /\ NoBroadcast /\ NoSubscriber /\ NoApp
    \/ \E d \in RouteDicts : RouteCall(d) /\ NoBroadcast /\ NoSubscriber /\ NoApp
    \/ RouteSend /\ NoBroadcast /\ NoSubscriber /\ NoApp

SpecRouter == InitRoute /\ [][NextRouter]_vars

\* --------------------------------------- NotificationRouter.broadcast
\* A broadcast that serves the excluded pair like any other.
BroadcastRecipientsAll(i, exclude) == GetOnlineUsers(i)

\* The users of the snapshot the loop of broadcast() does not `continue` past.
BroadcastRecipients(i, exclude) == GetOnlineUsers(i) \ {exclude}

\* broadcast(i, message, adapters, exclude) up to its first suspension.
BroadcastCall(i, exclude) ==
    /\ bcPc = "idle"
    /\ bcArgs' = [instance_id |-> i, exclude |-> exclude]
    /\ texts' = <<>>
    /\ bcSnapshot' = GetOnlineUsers(i)
    /\ bcPending' = BroadcastRecipients(i, exclude)
    /\ bcPc' = IF bcPending' = {} THEN "idle" ELSE "sending"
    /\ UNCHANGED routeVars

\* The send_text calls made for recipient pu: one on each adapter of the list
\* whose platform is the recipient's.
TextsTo(pu, raised) ==
    [n \in 1..Len(SelectSeq(adapters, LAMBDA a : a = pu[1])) |->
        [platform |-> pu[1], user_id |-> pu[2], raised |-> raised]]

\* The next recipient of the broadcast is served: send_text is awaited on the
\* adapter of the recipient's platform and returns or raises ("broadcast_failed"
\* is logged); a recipient whose platform has no adapter is passed over.
BroadcastSend ==
    /\ bcPc = "sending"
    /\ \E pu \in bcPending, raised \in BOOLEAN :
          /\ texts' = texts \o TextsTo(pu, raised)
          /\ bcPending' = bcPending \ {pu}
    /\ bcPc' = IF bcPending' = {} THEN "idle" ELSE "sending"
    /\ UNCHANGED <<bcArgs, bcSnapshot, routeVars>>

\* broadcast() called by one caller at a time, on any registry.
NextBroadcast ==
    \/ \E i \in InstanceIds, pu \in Users :
          bcPc = "idle" /\ RegisterOnlineCall(i, pu) /\ NoBroadcast /\ NoSubscriber /\ NoApp
    \/ \E i \in InstanceIds, ex \in Users \cup {NoExclude} :
          BroadcastCall(i, ex) /\ NoSubscriber /\ NoApp
    \/ BroadcastSend /\ NoSubscriber /\ NoApp

SpecBroadcast == InitRoute /\ [][NextBroadcast]_vars

\* The router called by one caller at a time: the registry changes only
\* between two route() calls, never while a fan-out is suspended.
NextRouterSeq ==
    \/ \E i \in InstanceIds, pu \in Users :
          routePc = "idle" /\ RegisterOnlineCall(i, pu) /\ NoBroadcast /\ NoSubscriber /\ NoApp
    \/ \E i \in InstanceIds, pu \in Users :
          routePc = "idle" /\ UnregisterOnlineCall(i, pu) /\ NoBroadcast /\ NoSubscriber /\ NoApp
    \/ \E d \in RouteDicts : RouteCall(d) /\ NoBroadcast /\ NoSubscriber /\ NoApp
    \/ RouteSend /\ NoBroadcast /\ NoSubscriber /\ NoApp

SpecRouterSeq == InitRoute /\ [][NextRouterSeq]_vars

\* --------------------------------------------------------- OpenCodeClient
\* The attempts tenacity allows a call of this kind.
MaxAttempts(kind) == IF kind = "message" THEN SEND_MAX_ATTEMPTS ELSE MAX_RETRIES

\* A client that retries whatever the attempt ended with.
RetriedAlways(kind, e) == TRUE

\* retry_if_exception_type: the exceptions after which tenacity tries again.
Retried(kind, e) ==
    IF kind = "message" THEN e \in SendRetriable ELSE e \in RETRIABLE_EXCEPTIONS

\* A client that is unhealthy from the first failure on.
IsHealthyStrict == consecutive_failures = 0

\* OpenCodeClient.is_healthy.
IsHealthy == consecutive_failures < MaxConsecutiveFailures

\* An API call is made: its first attempt begins.
ClientCallBegin(kind) ==
    /\ clientCall = NoCall
    /\ clientCall' = [kind |-> kind, attempt |-> 1]
    /\ clientLast' = "none"
    /\ UNCHANGED <<consecutive_failures, failedCalls>>

\* The attempt succeeds: _record_success, the call returns.
ClientAttemptOk ==
    /\ clientCall # NoCall
    /\ consecutive_failures' = 0
    /\ failedCalls' = 0
    /\ clientCall' = NoCall
    /\ clientLast' = "ok"

\* The attempt ends with exception e.  A standard call records the failure
\* in the decorated function, once per attempt; send_message records it
\* around the retried _send, once per call.  tenacity tries again after a
\* retriable exception while attempts are left, else the exception reaches
\* the caller (reraise=True).
ClientAttemptFails(e) ==
    /\ clientCall # NoCall
    /\ consecutive_failures < MaxFailures
    /\ clientLast' = e
    /\ LET again == /\ Retried(clientCall.kind, e)
                    /\ clientCall.attempt < MaxAttempts(clientCall.kind)
       IN  /\ clientCall' = IF again
                            THEN [clientCall EXCEPT !.attempt = @ + 1]
                            ELSE NoCall
           /\ failedCalls' = IF again THEN failedCalls ELSE failedCalls + 1
           /\ consecutive_failures' =
                 IF clientCall.kind = "standard" \/ ~again
                 THEN consecutive_failures + 1
                 ELSE consecutive_failures

\* Steps of the API client leave everything else alone.
ClientOnly ==
    UNCHANGED <<subscriberVars, routeVars, broadcastVars, appVars, sessionVars,
                instanceVars, bindVars>>

\* The API client, called by one caller at a time.
NextClient ==
    \/ \E kind \in CallKinds : ClientCallBegin(kind) /\ ClientOnly
    \/ ClientAttemptOk /\ ClientOnly
    \/ \E e \in ClientErrors : ClientAttemptFails(e) /\ ClientOnly

\* The application constructed, its client not yet used.
InitClient == InitSubscriber({NoCap}) /\ InitRouting({<<"telegram", "dingtalk">>})

SpecClient == InitClient /\ [][NextClient]_vars

\* --------------------------------------- SessionManager: offline messages
\* The positions in offline of the rows of user u.
RowsOf(u) == {n \in DOMAIN offline : offline[n].user = u}

\* The sets of k rows of user u that `ORDER BY created_at ASC LIMIT k` can
\* select: no row left out is older than a row selected.  Rows with equal
\* created_at come in an order SQL leaves open.
OldestRows(u, k) ==
    {D \in SUBSET RowsOf(u) :
        /\ Cardinality(D) = IF k <= Cardinality(RowsOf(u))
                            THEN k ELSE Cardinality(RowsOf(u))
        /\ \A d \in D, r \in RowsOf(u) \ D :
              offline[d].created_at <= offline[r].created_at}

\* The table without the rows at the positions in D.
DeleteRows(D) ==
    LET keep == {n \in DOMAIN offline : n \notin D}
        Nth[i \in 0..Len(offline)] ==
            IF i = 0 THEN 0
            ELSE CHOOSE n \in keep :
                    /\ n > Nth[i - 1]
                    /\ \A m \in keep : m > Nth[i - 1] => n <= m
    IN  [i \in 1..Cardinality(keep) |-> offline[Nth[i]]]

\* save_offline_message for user u at clock reading now: with the queue of
\* the user full its oldest rows are deleted, then the row is inserted.  The
\* content of the message is the serial number of the call.
SaveOfflineMessage(u, now) ==
    /\ saves < MaxSaves
    /\ saves' = saves + 1
    /\ LET count == Cardinality(RowsOf(u))
           row == [user |-> u, content |-> saves + 1, created_at |-> now]
       IN  IF count >= max_offline_messages
           THEN \E D \in OldestRows(u, count - max_offline_messages + 1) :
                   offline' = Append(DeleteRows(D), row)
           ELSE offline' = Append(offline, row)
    /\ savedSince' = [savedSince EXCEPT ![u] = @ \cup {saves + 1}]
    /\ UNCHANGED got

\* The lists `SELECT ... ORDER BY created_at ASC` can return for user u: the
\* contents of the user's rows, by nondecreasing created_at.
SelectOrdered(u) ==
    {q \in [1..Cardinality(RowsOf(u)) -> RowsOf(u)] :
        /\ \A r \in RowsOf(u) : \E i \in DOMAIN q : q[i] = r
        /\ \A i, j \in DOMAIN q :
              i < j => offline[q[i]].created_at <= offline[q[j]].created_at}

\* get_offline_messages for user u: the rows are selected, then deleted.
GetOfflineMessages(u) ==
    /\ \E q \in SelectOrdered(u) :
          got' = [i \in DOMAIN q |-> offline[q[i]].content]
    /\ offline' = DeleteRows(RowsOf(u))
    /\ savedSince' = [savedSince EXCEPT ![u] = {}]
    /\ UNCHANGED saves

\* Steps of the session manager leave everything else alone.
SessionOnly ==
    UNCHANGED <<subscriberVars, routeVars, broadcastVars, appVars, clientVars,
                instanceVars, bindVars>>

\* The offline message store, called by one caller at a time.
NextOffline ==
    \/ \E u \in OfflineUsers, now \in 1..MaxTime :
          SaveOfflineMessage(u, now) /\ SessionOnly
    \/ \E u \in OfflineUsers : GetOfflineMessages(u) /\ SessionOnly

SpecOffline == InitClient /\ [][NextOffline]_vars

\* ------------------------------------------------------ InstanceRegistry
\* _generate_secret ignoring the version (every reset gives the same secret).
GenerateSecretNoVersion(i, version) == <<i, 1>>

\* _generate_secret: the first 32 hex digits of HMAC-SHA256 of "<id>:<version>"
\* under the secret key, taken as one-to-one in (id, version).
GenerateSecret(i, version) == <<i, version>>

\* verify_connect_secret accepting every secret for a known instance.
VerifyKnownInstance(reg, i, s) == i \in DOMAIN reg

\* verify_connect_secret on the registry reg: false for an unknown instance,
\* otherwise the comparison with the instance's connect secret.
VerifyConnectSecret(reg, i, s) ==
    IF i \notin DOMAIN reg THEN FALSE ELSE reg[i].connect_secret = s

\* create_instance: the id is a fresh random token; without a name the first
\* of "instance", "instance-1", ... that no instance has is taken, a given
\* name is taken as it is.
CreateInstance(name) ==
    \E i \in InstanceIds :
       /\ \A s \in issued : s[1] # i
       /\ LET used == {instances[j].name : j \in DOMAIN instances}
              first == CHOOSE n \in 1..Len(AutoNames) :
                          /\ AutoNames[n] \notin used
                          /\ \A m \in 1..(n - 1) : AutoNames[m] \in used
              inst == [name |-> IF name = "" THEN AutoNames[first] ELSE name,
                       connect_secret |-> GenerateSecret(i, 1),
                       qr_version |-> 1]
          IN  /\ instances' = [j \in DOMAIN instances \cup {i} |->
                                  IF j = i THEN inst ELSE instances[j]]
              /\ issued' = issued \cup {inst.connect_secret}

\* rename_instance: refused for an unknown id and for a name some instance
\* has.
RenameInstance(i, new_name) ==
    /\ IF \/ i \notin DOMAIN instances
          \/ \E j \in DOMAIN instances : instances[j].name = new_name
       THEN UNCHANGED instances
       ELSE instances' = [instances EXCEPT ![i].name = new_name]
    /\ UNCHANGED issued

\* reset_qr: the next version and the secret generated for it.
ResetQr(i) ==
    IF i \notin DOMAIN instances
    THEN UNCHANGED instanceVars
    ELSE /\ instances[i].qr_version < MaxVersion
         /\ LET version == instances[i].qr_version + 1
            IN  /\ instances' =
                      [instances EXCEPT
                          ![i].qr_version = version,
                          ![i].connect_secret = GenerateSecret(i, version)]
                /\ issued' = issued \cup {GenerateSecret(i, version)}

\* delete_instance.
DeleteInstance(i) ==
    /\ instances' = [j \in DOMAIN instances \ {i} |-> instances[j]]
    /\ UNCHANGED issued

\* Steps of the registry leave everything else alone.
RegistryOnly ==
    UNCHANGED <<subscriberVars, routeVars, broadcastVars, appVars, clientVars,
                sessionVars, bindVars>>

\* The registry, called with any names and ids.
NextInstance ==
    \/ \E name \in Names : CreateInstance(name) /\ RegistryOnly
    \/ \E i \in InstanceIds, name \in Names \ {""} :
          RenameInstance(i, name) /\ RegistryOnly
    \/ \E i \in InstanceIds : ResetQr(i) /\ RegistryOnly
    \/ \E i \in InstanceIds : DeleteInstance(i) /\ RegistryOnly

SpecInstance == InitClient /\ [][NextInstance]_vars

\* ---------------------------------------------- QR payloads of the users
\* The texts starting with "eyJ" a user can send: one that does not decode
\* to a JSON object, and the objects with an instance id and with no secret,
\* a secret never generated or a secret of some instance and version.
Payloads ==
    [decodes : {FALSE}, instance_id : {None}, connect_secret : {NoSecret}]
    \cup [decodes : {TRUE}, instance_id : InstanceIds,
          connect_secret : {NoSecret, <<"i1", 0>>}
                             \cup (InstanceIds \X (1..MaxVersion))]

\* handle_text / _handle_qr_bind up to the await of bind_user: the payload is
\* decoded and its secret verified.  A payload that does not decode, and a
\* missing secret compared with that of a known instance, raise and are
\* answered as failed; a secret that is not verified is answered as invalid.
QrBindVerify(pu, payload) ==
    /\ qrPending = NoPending
    /\ \E n \in 1..Len(adapters) : adapters[n] = pu[1]
    /\ LET i == payload.instance_id
           raises == \/ ~payload.decodes
                     \/ i \in DOMAIN instances /\ payload.connect_secret = NoSecret
       IN  IF raises
           THEN qrReply' = "failed" /\ UNCHANGED qrPending
           ELSE IF VerifyConnectSecret(instances, i, payload.connect_secret)
                THEN /\ qrPending' =
                          [user |-> pu, instance_id |-> i,
                           secret |-> payload.connect_secret,
                           current |-> instances[i].connect_secret]
                     /\ qrReply' = "none"
                ELSE qrReply' = "invalid" /\ UNCHANGED qrPending
    /\ UNCHANGED routeVars

\* The rest of the handler: bind_user stores the binding, or fails and
\* returns false, which the handler does not look at; then the user is
\* registered online and answered.
QrBindStore(stored) ==
    /\ qrPending # NoPending
    /\ bindings' = IF stored
                   THEN bindings \cup {<<qrPending.user[1], qrPending.user[2],
                                         qrPending.instance_id>>}
                   ELSE bindings
    /\ RegisterOnline(qrPending.instance_id, qrPending.user)
    /\ qrPending' = NoPending
    /\ qrReply' = "bound"
    /\ UNCHANGED <<adapters, opencode_session_id, routePc, routed,
                   routePending, sends, routeSnapshot>>

\* Steps of the QR payload handler leave everything else alone.
QrBindOnly ==
    UNCHANGED <<subscriberVars, broadcastVars, appVars, clientVars,
                sessionVars, instanceVars>>

\* The adapters' QR payload handlers beside the registry.
NextBind ==
    \/ CreateInstance("") /\ RegistryOnly
    \/ \E i \in InstanceIds : ResetQr(i) /\ RegistryOnly
    \/ \E i \in InstanceIds : DeleteInstance(i) /\ RegistryOnly
    \/ \E pu \in BindUsers, payload \in Payloads :
          QrBindVerify(pu, payload) /\ QrBindOnly
    \/ \E stored \in BOOLEAN : QrBindStore(stored) /\ QrBindOnly

SpecBind == InitClient /\ [][NextBind]_vars

\* ------------------------------------------------------ Application.run
\* The adapter lists of _init_adapters with at least one adapter: Telegram
\* first when its token is set, DingTalk when its app key is set.
AppAdapterLists == AdapterLists \cup {<<"dingtalk">>}

\* The real events the backend sends, as the callback gets them.
AppEvents == {e \in CallbackEvents : e.type = MESSAGE_UPDATED}

\* The instance the users of the running application bind to.
AppInstance == "i1"

\* The application of any of the adapter lists, constructed.
InitApp == InitSubscriber({NoCap}) /\ InitRouting(AppAdapterLists)

\* Steps of Application.run() leave the router alone.
AppOnly == UNCHANGED <<routeVars, broadcastVars, wire, calls, coreVars>>

\* `await adapter.start()` of _start_services for the next adapter.  The
\* Telegram adapter awaits Dispatcher.start_polling, which polls until the
\* polling is stopped: run() is suspended in it.  The DingTalk adapter
\* creates the task of its stream client and returns, or returns without
\* one when the app secret is missing.
AppStartAdapter ==
    /\ appPc = "startAdapters"
    /\ appIdx <= Len(adapters)
    /\ IF adapters[appIdx] = "telegram"
       THEN /\ polling' = [polling EXCEPT !["telegram"] = "running"]
            /\ appPc' = "inStart"
            /\ appIdx' = appIdx
       ELSE /\ \E ok \in BOOLEAN :
                  polling' = [polling EXCEPT !["dingtalk"] =
                                 IF ok THEN "running" ELSE "off"]
            /\ appPc' = appPc
            /\ appIdx' = appIdx + 1
    /\ UNCHANGED <<stopBegun, shutdown_event>>
    /\ AppOnly /\ NoSubscriber

\* The Telegram polling ends (the dispatcher handles SIGINT/SIGTERM itself,
\* or stop_polling is called from a handler): start_polling returns and with
\* it adapter.start().
TelegramStartReturns ==
    /\ appPc = "inStart"
    /\ polling' = [polling EXCEPT !["telegram"] = "ended"]
    /\ appPc' = "startAdapters"
    /\ appIdx' = appIdx + 1
    /\ UNCHANGED <<stopBegun, shutdown_event>>
    /\ AppOnly /\ NoSubscriber

\* `await self.event_subscriber.start(self._on_opencode_event)`, after the
\* loop over the adapters; run() then waits for the shutdown event.
AppStartSubscriber ==
    /\ appPc = "startAdapters"
    /\ appIdx > Len(adapters)
    /\ Start
    /\ appPc' = "waiting"
    /\ UNCHANGED <<appIdx, polling, stopBegun, shutdown_event>>
    /\ AppOnly

\* Application.shutdown().
Shutdown ==
    /\ ~shutdown_event
    /\ shutdown_event' = TRUE
    /\ UNCHANGED <<appPc, appIdx, polling, stopBegun>>
    /\ AppOnly /\ NoSubscriber

\* A run() that does not wait for the shutdown event.
ShutdownNotAwaited == TRUE

\* `await self._shutdown_event.wait()` lets run() go on.
ShutdownSignalled == shutdown_event

\* Where run() is once event_subscriber.stop() is suspended, has returned or
\* has raised.
AfterSubscriberStop(pc, outcome) ==
    IF pc = "awaiting" THEN "stoppingSubscriber"
    ELSE IF outcome = "stop_raised" THEN "failed"
    ELSE "stopAdapters"

\* run() resumes after the wait and calls _stop_services, which runs
\* event_subscriber.stop() up to its suspension.
AppStopSubscriber ==
    /\ appPc = "waiting"
    /\ ShutdownSignalled
    /\ StopBegin
    /\ appPc' = AfterSubscriberStop(stopPc', api')
    /\ appIdx' = 1
    /\ UNCHANGED <<polling, stopBegun, shutdown_event>>
    /\ AppOnly

\* event_subscriber.stop() returns to _stop_services.
AppStopSubscriberEnd ==
    /\ appPc = "stoppingSubscriber"
    /\ StopEnd
    /\ appPc' = AfterSubscriberStop(stopPc', api')
    /\ UNCHANGED <<appIdx, polling, stopBegun, shutdown_event>>
    /\ AppOnly

\* `await adapter.stop()` of _stop_services for the next adapter.  The
\* DingTalk adapter cancels its client task.  Dispatcher.stop_polling of the
\* Telegram adapter is called on a polling that has ended: it returns or
\* raises, and an exception leaves run().
AppStopAdapter ==
    /\ appPc = "stopAdapters"
    /\ appIdx <= Len(adapters)
    /\ stopBegun' = stopBegun \cup {adapters[appIdx]}
    /\ polling' = [polling EXCEPT ![adapters[appIdx]] =
                      IF @ = "running" THEN "ended" ELSE @]
    /\ \E raises \in BOOLEAN :
          /\ raises => adapters[appIdx] = "telegram"
          /\ appPc' = IF raises THEN "failed" ELSE appPc
    /\ appIdx' = appIdx + 1
    /\ UNCHANGED shutdown_event
    /\ AppOnly /\ NoSubscriber

\* _stop_services returns: "application_stopped".
AppStopped ==
    /\ appPc = "stopAdapters"
    /\ appIdx > Len(adapters)
    /\ appPc' = "stopped"
    /\ UNCHANGED <<appIdx, polling, stopBegun, shutdown_event>>
    /\ AppOnly /\ NoSubscriber

\* A user sends the QR payload of the instance to an adapter that is polling.
AppHandleQrBind ==
    \E pu \in Users, ok \in BOOLEAN :
       /\ polling[pu[1]] = "running"
       /\ HandleQrBind(pu[1], pu[2], AppInstance, ok)
       /\ NoBroadcast /\ NoSubscriber /\ NoApp

\* A callback that returns while route() is still suspended.
RouteAbandoned == TRUE

\* `await self.notification_router.route(...)` has returned.
RouteHasReturned == routePc = "idle"

\* One line of the stream arrives; for a real event _process_line awaits the
\* callback, which builds the dict and runs route() up to its suspension.
AppReadLine(t) ==
    /\ ReadLine(t)
    /\ IF tasks'[t].pc = "eventCb"
       THEN /\ \E e \in AppEvents : RouteBody(EventDict(e))
            /\ UNCHANGED <<adapters, opencode_session_id, bindings,
                           online_users, regOrder>>
       ELSE UNCHANGED routeVars
    /\ UNCHANGED <<wire, calls>>
    /\ NoBroadcast /\ NoApp

\* send_event returns or raises in the route() call the loop task awaits.
AppRouteSend(t) ==
    /\ tasks[t].pc = "eventCb"
    /\ ~tasks[t].cancelReq
    /\ RouteSend
    /\ NoBroadcast /\ NoSubscriber /\ NoApp

\* route() has returned and with it the callback.
AppEventCbReturns(t) ==
    /\ RouteHasReturned
    /\ EventCbReturns(t)
    /\ NoLineHistory

\* The cancellation of the loop task takes effect; inside the callback the
\* CancelledError is raised at the send_event route() awaits, which
\* `except Exception` does not catch: the route() call is over.
AppCancelDelivered(t) ==
    /\ CancelDelivered(t)
    /\ IF tasks[t].pc = "eventCb"
       THEN /\ routePc' = "idle"
            /\ routePending' = {}
            /\ UNCHANGED <<adapters, opencode_session_id, bindings,
                           online_users, routed, sends, routeSnapshot,
                           regOrder>>
       ELSE UNCHANGED routeVars
    /\ UNCHANGED <<wire, calls>>
    /\ NoBroadcast /\ NoApp

\* The application: run() from _start_services on, shutdown(), the loop task
\* of the subscriber against a server that accepts the connection and keeps
\* the stream open, and the users of the adapters that poll.
NextApp ==
    \/ AppStartAdapter
    \/ TelegramStartReturns
    \/ AppStartSubscriber
    \/ Shutdown
    \/ AppStopSubscriber
    \/ AppStopSubscriberEnd
    \/ AppStopAdapter
    \/ AppStopped
    \/ AppHandleQrBind
    \/ \E t \in TaskIds :
          \/ LoopStart(t) /\ NoLineHistory
          \/ ConnectOk(t) /\ NoLineHistory
          \/ AppReadLine(t)
          \/ AppRouteSend(t)
          \/ AppEventCbReturns(t)
          \/ AppCancelDelivered(t)

SpecApp == InitApp /\ [][NextApp]_vars

\* ---------------------------------------------------------------- claims
ConnectedPcs == {"restoredCb", "reading", "eventCb"}

\* C1: an exception the callback raises, on a real event or on a synthetic
\* _connection.lost / _connection.restored event, is caught inside the
\* subscriber: no loop task is ended by an exception and no connection is torn
\* down (no reconnect started) because the callback raised.
C1_CallbackErrorContained ==
    \A t \in TaskIds :
        /\ tasks[t].result # "error"
        /\ tasks[t].lastEnd # "callback"

\* C2: a connection attempt answered with 401 or 403 stops the loop with no
\* reconnect: no _connection.lost event, total_reconnects unchanged, the state
\* DISCONNECTED and is_running false.
C2_AuthFailureStops ==
    [][\A t \in TaskIds :
          (tasks[t].pc = "connecting" /\ tasks'[t].lastEnd = "auth") =>
              /\ synthLog' = synthLog
              /\ stats'.total_reconnects = stats.total_reconnects
              /\ state' = DISCONNECTED
              /\ running' = FALSE]_vars

\* The first _connection.restored event of the log is at position i.
FirstRestored(i) ==
    /\ synthLog[i].type = CONNECTION_RESTORED
    /\ \A j \in 1..(i - 1) : synthLog[j].type # CONNECTION_RESTORED

\* C3: without an attempt cap, when a freshly started subscriber connects
\* successfully after n >= 1 drops, the callback has received exactly n
\* _connection.lost events, one per drop, and then one _connection.restored
\* event whose reconnect_count is n.
C3_LostPerDropThenRestored ==
    (max_reconnect_attempts = NoCap /\ ~everStopped) =>
        \A i \in 1..Len(synthLog) :
            FirstRestored(i) =>
                /\ i >= 2
                /\ \A j \in 1..(i - 1) :
                      synthLog[j].type = CONNECTION_LOST /\ synthLog[j].drops = j
                /\ synthLog[i].drops = i - 1
                /\ synthLog[i].arg = i - 1

\* Three drops, then the restored event with reconnect_count 3.
C3_Witness ==
    /\ max_reconnect_attempts = NoCap
    /\ ~everStopped
    /\ Len(synthLog) = 4
    /\ FirstRestored(4)
    /\ synthLog[4].arg = 3
    /\ \E t \in TaskIds : tasks[t].pc = "restoredCb"

\* C4: under any interleaving of start() and stop() calls at most one
\* subscription loop task is alive.
C4_AtMostOneLoop == Cardinality({t \in TaskIds : Alive(t)}) <= 1

\* C5: when stop() has returned, the loop task has terminated (so no callback
\* and no connection attempt follows until a later start()), is_running is
\* false and the state is DISCONNECTED.
C5_StopReturnsAfterLoopEnded ==
    (api = "stopped") =>
        /\ \A t \in TaskIds : ~Alive(t)
        /\ ~running
        /\ state = DISCONNECTED

\* stop() has returned after cancelling a loop in its backoff sleep.
C5_Witness ==
    /\ api = "stopped"
    /\ \E t \in TaskIds :
          /\ tasks[t].pc = "done"
          /\ tasks[t].result = "cancelled"
          /\ tasks[t].sleepFor > 0

\* C6: stop() on a subscriber that was never started, and stop() again after a
\* stop() that returned, returns without raising and leaves is_running false,
\* the state DISCONNECTED and the statistics unchanged.
C6_StopIdempotent ==
    [][(api \in {"fresh", "stopped"} /\ api' # "started") =>
          /\ api' = "stopped"
          /\ running' = FALSE
          /\ state' = DISCONNECTED
          /\ stats' = stats]_vars

\* stop() has returned on a subscriber that was never started.
C6_Witness ==
    /\ api = "stopped"
    /\ everStopped
    /\ \A t \in TaskIds : tasks[t].pc = "none"

\* C7: no exception propagates out of start() or stop(), also when the loop
\* task had ended on its own before stop() was called.
C7_NoExceptionFromStartStop == api # "stop_raised"

\* C8 as stated: after a clean close of the stream the next attempt is made
\* immediately, with no backoff sleep before it.
C8_NoSleepAfterCleanClose ==
    \A t \in TaskIds :
        (tasks[t].lastEnd = "clean") =>
            /\ tasks[t].pc # "sleeping"
            /\ tasks[t].pc = "connecting" => tasks[t].sleepFor = 0

\* C8 amended: after a clean close of the stream while running, the delay is
\* reset to min_reconnect_delay, the _connection.lost event carries it, and the
\* next attempt is preceded by a backoff sleep of exactly min_reconnect_delay.
C8_MinSleepAfterCleanClose ==
    \A t \in TaskIds :
        (tasks[t].lastEnd = "clean") =>
            /\ tasks[t].pc = "lostCb" =>
                  /\ reconnect_delay = MinDelay
                  /\ synthLog[Len(synthLog)].type = CONNECTION_LOST
                  /\ synthLog[Len(synthLog)].arg = MinDelay
            /\ tasks[t].pc = "sleeping" => tasks[t].sleepFor = MinDelay
            /\ tasks[t].pc = "connecting" => tasks[t].sleepFor = MinDelay

\* The attempt after a clean close is under way, after the sleep.
C8_Witness ==
    \E t \in TaskIds :
        /\ tasks[t].lastEnd = "clean"
        /\ tasks[t].pc = "connecting"
        /\ tasks[t].sleepFor = MinDelay

RECURSIVE Pow(_, _)
Pow(b, k) == IF k = 0 THEN 1 ELSE b * Pow(b, k - 1)

\* d = min(min_delay * 2^k * j, max_delay) for some real j in [0.8, 1.2].
SingleJitter(k, d) ==
    \/ /\ d < MaxDelay
       /\ 8 * MinDelay * Pow(2, k) <= 10 * d
       /\ 10 * d <= 12 * MinDelay * Pow(2, k)
    \/ /\ d = MaxDelay
       /\ 12 * MinDelay * Pow(2, k) >= 10 * MaxDelay

\* The products of k jitter factors, in 10^-k.
RECURSIVE JitterProducts(_)
JitterProducts(k) ==
    IF k = 0 THEN {1} ELSE {p * j : p \in JitterProducts(k - 1), j \in Jitters}

\* d = min(min_delay * 2^k * J, max_delay) for a product J of k jitter factors.
CompoundJitter(k, d) ==
    \E p \in JitterProducts(k) :
        IF MinDelay * Pow(2, k) * p >= MaxDelay * Pow(10, k)
        THEN d = MaxDelay
        ELSE d * Pow(10, k) = MinDelay * Pow(2, k) * p

\* C9 as stated: with no retry hint, the delay after k consecutive failed
\* attempts is min(min_delay * 2^k * j, max_delay) for one j in [0.8, 1.2].
C9_SingleJitterBackoff ==
    \A t \in TaskIds :
        (tasks[t].pc = "connecting" /\ ~hinted) => SingleJitter(reconnect_attempts, reconnect_delay)

\* C9 amended: with no retry hint, the delay after k consecutive failed
\* attempts is min(min_delay * 2^k * J, max_delay) where J is the product of
\* the k jitter factors drawn, each in [0.8, 1.2].
C9_CompoundJitterBackoff ==
    \A t \in TaskIds :
        (tasks[t].pc = "connecting" /\ ~hinted) => CompoundJitter(reconnect_attempts, reconnect_delay)

\* Two failed attempts, and a delay below the cap.
C9_Witness ==
    \E t \in TaskIds :
        /\ tasks[t].pc = "connecting"
        /\ ~hinted
        /\ reconnect_attempts = 2
        /\ reconnect_delay < MaxDelay

\* C10: on every successful connection the delay is reset to
\* min_reconnect_delay and the attempt counter to 0, so that without a retry:
\* hint the first reconnect after the drop of an established connection sleeps
\* exactly min_reconnect_delay.
C10_ResetOnConnect ==
    \A t \in TaskIds :
        /\ tasks[t].pc \in ConnectedPcs =>
              /\ reconnect_attempts = 0
              /\ ~hinted => reconnect_delay = MinDelay
        /\ (tasks[t].pc = "sleeping" /\ tasks[t].established /\ ~hinted) =>
              tasks[t].sleepFor = MinDelay

\* An established connection dropped after the backoff had grown: the sleep
\* is min_reconnect_delay.
C10_Witness ==
    \E t \in TaskIds :
        /\ tasks[t].pc = "sleeping"
        /\ tasks[t].established
        /\ tasks[t].lastEnd = "error"
        /\ ~hinted
        /\ tasks[t].sleepFor = MinDelay
        /\ \E i \in 1..Len(synthLog) :
              synthLog[i].type = CONNECTION_LOST /\ synthLog[i].arg > MinDelay

\* C11: the delay a retry: line set on a connection (N/1000 s clamped to
\* [min_reconnect_delay, max_reconnect_delay]; reconnect_delay holds it while
\* the connection reads on) is the delay of the reconnect that follows the end
\* of that connection, whether the stream failed or was closed cleanly: the
\* _connection.lost event carries it.
C11_RetryHintGovernsNextAttempt ==
    [][\A t \in TaskIds :
          (tasks[t].pc = "reading" /\ hinted /\ tasks'[t].pc = "lostCb") =>
              /\ reconnect_delay' = reconnect_delay
              /\ synthLog'[Len(synthLog')].arg = reconnect_delay]_vars

\* C12: with max_reconnect_attempts = N, when an attempt or session of a
\* running subscriber ends (other than by 401/403), the loop stops exactly when
\* the number of consecutive failures then exceeds N; while it is at most N
\* the loop goes on to reconnect.
C12_StopsOnlyOnceCapExceeded ==
    [][\A t \in TaskIds :
          (/\ Alive(t)
           /\ running
           /\ max_reconnect_attempts # NoCap
           /\ drops' = drops + 1) =>
              (tasks'[t].pc = "done" <=> reconnect_attempts' > max_reconnect_attempts)]_vars

\* C13: with no attempt cap, the loop of a running subscriber that nobody is
\* stopping never ends after a failure other than 401/403 (it goes on to
\* another connection attempt): the only step that ends it is the 401/403
\* answer.
C13_LoopStopsOnlyOnAuthFailure ==
    [][\A t \in TaskIds :
          (/\ Alive(t)
           /\ running
           /\ ~tasks[t].cancelReq
           /\ max_reconnect_attempts = NoCap
           /\ tasks'[t].pc = "done") =>
              tasks'[t].lastEnd = "auth"]_vars

\* C14: once the loop has stopped on a 401/403 answer, a call of start()
\* starts a new loop: it leaves the state CONNECTING and a new task created.
C14_StartAfterAuthStopRestarts ==
    (/\ stopPc = "idle"
     /\ task # NoneTask
     /\ tasks[task].pc = "done"
     /\ tasks[task].lastEnd = "auth") =>
        ENABLED (Start /\ state' = CONNECTING /\ tasks'[task'].pc = "new")

\* C15: each entry into RECONNECTING hands exactly one _connection.lost event
\* to the callback, after the state change and before the backoff sleep; while
\* the state stays RECONNECTING no further synthetic event is delivered; and
\* the sleep that follows lasts the reconnect_in the event carried.
C15_LostEventBeforeSleep ==
    [][\A t \in TaskIds :
          /\ (Alive(t) /\ state # RECONNECTING /\ state' = RECONNECTING) =>
                /\ tasks'[t].pc = "lostCb"
                /\ Len(synthLog') = Len(synthLog) + 1
                /\ synthLog'[Len(synthLog')].type = CONNECTION_LOST
                /\ synthLog'[Len(synthLog')].arg = reconnect_delay'
          /\ (state = RECONNECTING /\ state' = RECONNECTING) => synthLog' = synthLog
          /\ (tasks[t].pc = "lostCb" /\ tasks'[t].pc = "sleeping") =>
                /\ synthLog' = synthLog
                /\ tasks'[t].sleepFor = synthLog[Len(synthLog)].arg
          /\ (tasks[t].pc = "sleeping" /\ tasks'[t].pc = "connecting") =>
                tasks'[t].sleepFor = synthLog[Len(synthLog)].arg]_vars

\* The attempt after a sleep longer than min_reconnect_delay is under way; the
\* last event handed to the callback is the _connection.lost event with that
\* delay.
C15_Witness ==
    \E t \in TaskIds :
        /\ tasks[t].pc = "connecting"
        /\ tasks[t].sleepFor > MinDelay
        /\ Len(synthLog) > 0
        /\ synthLog[Len(synthLog)].type = CONNECTION_LOST
        /\ synthLog[Len(synthLog)].arg = tasks[t].sleepFor

\* C16: a _connection.restored event is handed to the callback only by the step
\* that establishes a connection after at least one counted reconnect, with
\* the state already CONNECTED; a connection established with no prior
\* reconnect delivers none; and lines are read (real events forwarded) on a
\* connection that follows a reconnect only after that callback.
C16_RestoredOnlyAfterReconnect ==
    [][\A t \in TaskIds :
          /\ (/\ Alive(t)
              /\ Len(synthLog') > Len(synthLog)
              /\ synthLog'[Len(synthLog')].type = CONNECTION_RESTORED) =>
                /\ tasks[t].pc = "connecting"
                /\ tasks'[t].pc = "restoredCb"
                /\ state' = CONNECTED
                /\ stats.total_reconnects > 0
                /\ drops > 0
          /\ (/\ tasks[t].pc = "connecting"
              /\ tasks'[t].pc \in ConnectedPcs
              /\ stats.total_reconnects = 0) => synthLog' = synthLog
          /\ (tasks[t].pc = "connecting" /\ tasks'[t].pc = "reading") =>
                stats.total_reconnects = 0
          /\ (tasks[t].pc # "eventCb" /\ tasks'[t].pc = "eventCb") =>
                tasks[t].pc = "reading"]_vars

\* A connection re-established after events had been forwarded: the restored
\* event is with the callback and no line of this connection has been read.
C16_Witness ==
    \E t \in TaskIds :
        /\ tasks[t].pc = "restoredCb"
        /\ state = CONNECTED
        /\ stats.total_events > 0
        /\ synthLog[Len(synthLog)].type = CONNECTION_RESTORED
        /\ synthLog[Len(synthLog)].arg = stats.total_reconnects

\* The number of callback invocations made for the line at position i of wire.
CallsFor(i) == Cardinality({k \in 1..Len(calls) : calls[k] = i})

\* Every valid data: line that came after an undecodable one on this
\* connection got exactly one callback invocation.
ValidAfterMalformedDelivered ==
    \A i \in 1..Len(wire) :
        (wire[i] = "data" /\ \E j \in 1..(i - 1) : wire[j] = "data_badjson") =>
            CallsFor(i) = 1

\* C17: a data: line whose payload is not valid JSON invokes no callback,
\* leaves total_events and the connection state unchanged and leaves the
\* connection reading; every later valid data: line of the connection still
\* gets exactly one callback invocation.
C17_MalformedJsonSkipped ==
    [][/\ \A t \in TaskIds :
             (/\ tasks[t].pc = "reading"
              /\ Len(wire') = Len(wire) + 1
              /\ wire'[Len(wire')] = "data_badjson") =>
                 /\ calls' = calls
                 /\ stats' = stats
                 /\ state' = state
                 /\ tasks'[t].pc = "reading"
       /\ ValidAfterMalformedDelivered']_vars

\* An undecodable line, then a valid one whose event is with the callback.
C17_Witness ==
    /\ state = CONNECTED
    /\ wire = <<"data_badjson", "data">>
    /\ calls = <<2>>
    /\ stats.total_events = 1
    /\ \E t \in TaskIds : tasks[t].pc = "eventCb"

\* C18: within one connection the callback has been invoked exactly once for
\* each valid data: line read and for no other line (empty, event:, id: and
\* the rest), in wire order; at most one invocation is in progress, and while
\* one is, no further line has been read.
C18_OneCallPerDataLineInOrder ==
    /\ \A i \in 1..Len(wire) : CallsFor(i) = IF wire[i] = "data" THEN 1 ELSE 0
    /\ \A k \in 1..Len(calls) : calls[k] \in 1..Len(wire)
    /\ \A k \in 1..(Len(calls) - 1) : calls[k] < calls[k + 1]
    /\ Cardinality({t \in TaskIds : tasks[t].pc = "eventCb"}) <= 1
    /\ \A t \in TaskIds :
          (tasks[t].pc = "eventCb" /\ ~tasks[t].cancelReq) =>
              /\ Len(calls) > 0
              /\ calls[Len(calls)] = Len(wire)

\* Two valid data: lines with an empty line between them; the event of the
\* second is with the callback.
C18_Witness ==
    /\ wire = <<"data", "empty", "data">>
    /\ calls = <<1, 3>>
    /\ \E t \in TaskIds : tasks[t].pc = "eventCb" /\ ~tasks[t].cancelReq

\* C19: when the callback gets a real event whose sessionID is the
\* opencode_session_id of instance i, every user bound to i and online for i
\* is a recipient of the route() call made for it (each recipient gets one
\* send_event call as the fan-out proceeds).
C19_SessionEventReachesBoundUsers ==
    [][(/\ routePc = "idle"
        /\ UNCHANGED <<bindings, online_users, opencode_session_id>>
        /\ routed'.type = MESSAGE_UPDATED) =>
          \A i \in InstanceIds, pu \in Users :
              (/\ opencode_session_id[i] # ""
               /\ routed'.sessionID = opencode_session_id[i]
               /\ <<pu[1], pu[2], i>> \in bindings
               /\ pu \in GetOnlineUsers(i)) =>
                  pu \in routePending']_vars

\* C20: every event dict passed to route() carries a non-empty instance_id.
C20_RoutedEventHasInstanceId ==
    (routed # NoEventDict) => routed.instance_id \notin {None, ""}

\* ------------------------------------------------ claims on the router
\* The positions in sends of the send_event calls made to user pu on the
\* adapter of the user's platform.
CallsTo(pu) ==
    {k \in DOMAIN sends :
        sends[k].platform = pu[1] /\ sends[k].user_id = pu[2]}

\* The adapter list has an adapter of platform p.
HasAdapter(p) == \E n \in 1..Len(adapters) : adapters[n] = p

\* A route() call for an instance has been made and has returned.
RouteReturned ==
    routePc = "idle" /\ routed \in RouteDicts /\ routed.instance_id \in InstanceIds

\* C21: when route(event of instance X) has returned, send_event was called
\* exactly once, with that event, for each user who was online for X at the
\* call and whose platform has an adapter, and for nobody else.
C21_RouteServesOnlineUsersOfInstance ==
    RouteReturned =>
        /\ \A pu \in routeSnapshot :
              HasAdapter(pu[1]) => Cardinality(CallsTo(pu)) = 1
        /\ \A k \in DOMAIN sends :
              /\ <<sends[k].platform, sends[k].user_id>> \in routeSnapshot
              /\ HasAdapter(sends[k].platform)
              /\ sends[k].event = routed

\* A call for i1 has returned: two users were online for it, one of a
\* platform without adapter, a third user was online for i2 only.
C21_Witness ==
    /\ RouteReturned /\ routed.instance_id = "i1"
    /\ adapters = <<"telegram">>
    /\ routeSnapshot = {<<"telegram", "u1">>, <<"dingtalk", "u3">>}
    /\ <<"telegram", "u2">> \in GetOnlineUsers("i2")
    /\ Len(sends) = 1

\* C22: a route() call with an event whose instance_id is absent or empty
\* makes no send_event call, returns at once and leaves the registry of
\* online users as it was.
C22_NoInstanceIdNoCall ==
    [][(routed' \in RouteDicts /\ routed'.instance_id \in {None, ""})
          => /\ sends' = <<>>
             /\ routePc' = "idle"
             /\ (routed' # routed => online_users' = online_users)]_vars

\* A call with an empty instance_id has returned while users are online for
\* both instances.
C22_Witness ==
    /\ routed \in RouteDicts /\ routed.instance_id = ""
    /\ GetOnlineUsers("i1") # {} /\ GetOnlineUsers("i2") # {}

\* A route() call for an instance has been made; it may still be under way.
RouteCalled == routed \in RouteDicts /\ routed.instance_id \in InstanceIds

\* C23: once send_event has raised for some recipients of a route() call,
\* every recipient of the call with an adapter is either still to be served,
\* with no call yet, or has had its send_event call exactly once; and the call
\* returns when nobody is left to serve.
C23_SendErrorsAreContained ==
    (RouteCalled /\ \E k \in DOMAIN sends : sends[k].raised) =>
        /\ \A pu \in routeSnapshot :
              HasAdapter(pu[1]) =>
                 Cardinality(CallsTo(pu)) = (IF pu \in routePending THEN 0 ELSE 1)
        /\ (routePc = "idle") = (routePending = {})

\* A call has returned whose first send_event raised and whose second did not.
C23_Witness ==
    /\ RouteReturned
    /\ Len(sends) = 2 /\ sends[1].raised /\ ~sends[2].raised

\* The users the send_event calls of the call were made for.
Served == {<<sends[k].platform, sends[k].user_id>> : k \in DOMAIN sends}

\* C24: whatever register_online and unregister_online calls interleave with
\* the fan-out, the users served or still to be served by a route() call are
\* users of its snapshot, every snapshot user with an adapter is among them,
\* and the call goes on until nobody is left to serve.
C24_RecipientsAreTheSnapshot ==
    RouteCalled =>
        /\ Served \cup routePending \subseteq routeSnapshot
        /\ \A pu \in routeSnapshot :
              HasAdapter(pu[1]) => pu \in Served \cup routePending
        /\ (routePc = "sending") = (routePending # {})

\* A fan-out is suspended after its first send_event; since its snapshot one
\* of the users still to be served went offline and a new user came online.
C24_Witness ==
    /\ RouteCalled /\ routePc = "sending" /\ Len(sends) = 1
    /\ \E pu \in routePending : pu \notin GetOnlineUsers(routed.instance_id)
    /\ GetOnlineUsers(routed.instance_id) \ routeSnapshot # {}

\* The position of x in the sequence q, 0 when x does not occur in q.
PosIn(q, x) ==
    IF \E n \in DOMAIN q : q[n] = x
    THEN CHOOSE n \in DOMAIN q : q[n] = x
    ELSE 0

\* C25: the send_event calls of a route() call are made in the order in which
\* their users were registered online for the instance.
C25_ServedInRegistrationOrder ==
    RouteCalled =>
        \A j, k \in DOMAIN sends :
           j < k =>
              PosIn(regOrder[routed.instance_id],
                    <<sends[j].platform, sends[j].user_id>>)
              < PosIn(regOrder[routed.instance_id],
                      <<sends[k].platform, sends[k].user_id>>)

\* C26: when the subscriber hands the next event to the callback, the
\* route() call of the event before it has returned, so none of its
\* send_event calls is outstanding; and every send_event call that is made
\* is for the event handed over last.
C26_EventsDeliveredInOrder ==
    [][/\ (stats'.total_events = stats.total_events + 1)
            => (routePc = "idle" /\ routePending = {})
       /\ (Len(sends') > Len(sends))
            => (routed' = routed /\ sends'[Len(sends')].event = routed)]_vars

\* The second event of the connection has been delivered to both users
\* online for its instance, after the first event was read and routed.
C26_Witness ==
    /\ stats.total_events = 2
    /\ routePc = "idle" /\ routed.instance_id = AppInstance
    /\ \E t \in TaskIds : tasks[t].pc = "reading"
    /\ Len(sends) = 2

\* C27: on any registry, register_online(i, p, u) makes get_online_users(i)
\* list (p, u) exactly once and unregister_online(i, p, u) makes it not list
\* it; registering an online pair and unregistering a pair that is not online
\* (its instance known or not) leave the registry as it is; and neither
\* changes whether any other pair is online for any instance.
C27_RegistryIsASetPerInstance ==
    \A i \in InstanceIds, pu \in Users :
       LET reg == Registered(i, pu)
           unreg == Unregistered(i, pu)
       IN  /\ \A q \in ListsOf(OnlineIn(reg, i)) :
                 Cardinality({n \in DOMAIN q : q[n] = pu}) = 1
           /\ pu \notin OnlineIn(unreg, i)
           /\ (pu \in GetOnlineUsers(i) => reg = online_users)
           /\ (pu \notin GetOnlineUsers(i) => unreg = online_users)
           /\ \A j \in InstanceIds, qu \in Users :
                 <<j, qu>> # <<i, pu>> =>
                    /\ (qu \in OnlineIn(reg, j)) = (qu \in GetOnlineUsers(j))
                    /\ (qu \in OnlineIn(unreg, j)) = (qu \in GetOnlineUsers(j))

\* Users were registered for i1 and all of them unregistered again, two users
\* are online for i2.
C27_Witness ==
    /\ "i1" \in DOMAIN online_users /\ online_users["i1"] = {}
    /\ Cardinality(GetOnlineUsers("i2")) = 2

\* ----------------------------------------------- claims on broadcast
\* The positions in texts of the send_text calls made to user pu.
TextsFor(pu) ==
    {k \in DOMAIN texts :
        texts[k].platform = pu[1] /\ texts[k].user_id = pu[2]}

\* A broadcast() call has been made and has returned.
BroadcastReturned == bcPc = "idle" /\ bcArgs.instance_id \in InstanceIds

\* C28 as stated: when broadcast() has returned, send_text was called exactly
\* once for every user who was online for the instance other than the
\* excluded pair, and never for the excluded pair.
C28_BroadcastServesAllButExcluded ==
    BroadcastReturned =>
        \A pu \in Users :
           Cardinality(TextsFor(pu)) =
              (IF pu \in bcSnapshot /\ pu # bcArgs.exclude THEN 1 ELSE 0)

\* C28, amended: when broadcast() has returned, send_text was called exactly
\* once for every user who was online for the instance, is not the excluded
\* pair and whose platform has an adapter, whichever of these calls raised,
\* and for nobody else.
C28_BroadcastServesAllButExcludedWithAdapter ==
    BroadcastReturned =>
        \A pu \in Users :
           Cardinality(TextsFor(pu)) =
              (IF pu \in bcSnapshot /\ pu # bcArgs.exclude /\ HasAdapter(pu[1])
               THEN 1 ELSE 0)

\* A broadcast to three online users, one of them excluded, has returned; the
\* first send_text raised and the second was made all the same.
C28_Witness ==
    /\ BroadcastReturned
    /\ Cardinality(bcSnapshot) = 3 /\ bcArgs.exclude \in bcSnapshot
    /\ Len(texts) = 2 /\ texts[1].raised

\* ------------------------------------------- claims on Application.run
\* C29: the subscriber and the adapters are stopped only once shutdown() has
\* been signalled; when stop() is called on an adapter event_subscriber.stop()
\* has returned, no loop task is alive and no route() call is in progress;
\* and no send_event call is made on an adapter whose stop() has begun.
C29_SubscriberStoppedBeforeAdapters ==
    [][/\ (everStopped' \/ stopBegun' # {}) => shutdown_event'
       /\ (stopBegun' # {}) =>
             /\ everStopped' /\ stopPc' = "idle"
             /\ \A t \in TaskIds : tasks'[t].pc \in {"none", "done"}
             /\ routePc' = "idle"
       /\ (Len(sends') > Len(sends)) =>
             sends'[Len(sends')].platform \notin stopBegun]_vars

\* run() has returned after stopping both adapters; shutdown was signalled
\* while route() had served one of three recipients.
C29_Witness ==
    /\ appPc = "stopped" /\ stopBegun = Platforms
    /\ Cardinality(routeSnapshot) = 3 /\ Len(sends) = 1

\* C30: run() is never suspended in the start() of an adapter whose polling
\* loop runs, and once the subscriber has been started every adapter's
\* polling loop that was started keeps running until the adapter is stopped.
C30_AdapterStartDoesNotBlock ==
    /\ appPc = "inStart" => polling[adapters[appIdx]] # "running"
    /\ api # "fresh" =>
          \A p \in Platforms \ stopBegun : polling[p] # "ended"

\* --------------------------------- claims on the delay and the state
\* C36: the reconnect delay always lies between min_reconnect_delay and
\* max_reconnect_delay.
C36_DelayWithinBounds ==
    MinDelay <= reconnect_delay /\ reconnect_delay <= MaxDelay

\* A retry: hint below the minimum was taken, after a failed attempt and its
\* doubling, and the delay is the minimum.
C36_Witness ==
    /\ hinted /\ reconnect_delay = MinDelay
    /\ stats.total_reconnects >= 2

\* start() takes effect in this step.
StartStep == ~running /\ running' /\ api' = "started"

\* C37: the connection state changes only along DISCONNECTED->CONNECTING (in
\* a step of start()), CONNECTING->CONNECTED, CONNECTING->RECONNECTING,
\* CONNECTED->RECONNECTING, RECONNECTING->CONNECTING and any->DISCONNECTED.
C37_StateTransitions ==
    [][state' # state =>
          \/ state' = DISCONNECTED
          \/ state = DISCONNECTED /\ state' = CONNECTING /\ StartStep
          \/ state = CONNECTING /\ state' \in {CONNECTED, RECONNECTING}
          \/ state = CONNECTED /\ state' = RECONNECTING
          \/ state = RECONNECTING /\ state' = CONNECTING]_vars

\* C38: in the sequence of synthetic events handed to the callback, every
\* _connection.restored event has a _connection.lost event between it and
\* the restored event before it (the start of the sequence for the first).
C38_RestoredPrecededByLost ==
    \A i \in 1..Len(synthLog) :
       synthLog[i].type = CONNECTION_RESTORED =>
          \E j \in 1..(i - 1) :
             /\ synthLog[j].type = CONNECTION_LOST
             /\ \A k \in (j + 1)..(i - 1) :
                   synthLog[k].type # CONNECTION_RESTORED

\* ------------------------------------------------ claims on the client
\* C31: is_healthy is false exactly when at least 5 API calls have failed in
\* a row since the last successful call.
C31_UnhealthyAfterFiveFailedCalls ==
    IsHealthy = (failedCalls < MaxConsecutiveFailures)

\* C32 as stated: a standard call makes at most 3 attempts and send_message
\* at most 2, a further attempt follows only a connect error, a connect,
\* read, write or pool timeout, and an HTTP status error ends the call.
C32_RetryOnlyListedErrors ==
    [][/\ clientCall'.attempt <= MaxAttempts(clientCall'.kind)
       /\ (clientCall'.attempt = clientCall.attempt + 1 /\ clientCall # NoCall)
             => clientLast' \in {"ConnectError", "ConnectTimeout", "ReadTimeout",
                                 "WriteTimeout", "PoolTimeout"}
       /\ (clientCall # NoCall /\ clientLast' = "HTTPStatusError")
             => clientCall' = NoCall]_vars

\* C32, amended: as above, with the remote protocol error among the errors
\* a standard call is retried after.
C32_RetryOnlyRetriableErrors ==
    [][/\ clientCall'.attempt <= MaxAttempts(clientCall'.kind)
       /\ (clientCall'.attempt = clientCall.attempt + 1 /\ clientCall # NoCall)
             => /\ clientLast' \in RETRIABLE_EXCEPTIONS
                /\ clientCall.kind = "message" => clientLast' \in SendRetriable
       /\ (clientCall # NoCall /\ clientLast' = "HTTPStatusError")
             => clientCall' = NoCall]_vars

\* A standard call is in its third attempt after two timeouts.
C32_Witness ==
    /\ clientCall = [kind |-> "standard", attempt |-> MAX_RETRIES]
    /\ clientLast = "ReadTimeout"

\* --------------------------------------- claims on the offline messages
\* The contents of the stored messages of user u.
Stored(u) == {offline[n].content : n \in RowsOf(u)}

\* C33: no user has more than max_offline_messages messages stored, and the
\* stored messages of a user are the most recently saved ones: every message
\* saved for the user since the last retrieval and no longer stored was saved
\* before every stored one.
C33_OfflineQueueKeepsNewest ==
    \A u \in OfflineUsers :
       /\ Cardinality(RowsOf(u)) <= max_offline_messages
       /\ \A x \in Stored(u), y \in savedSince[u] \ Stored(u) : y < x

\* C34: get_offline_messages(u) returns the stored messages of u in the
\* order in which they were saved and removes them, and leaves the stored
\* messages of every other user as they were.
C34_GetReturnsInOrderAndClears ==
    [][(got' # got \/ Len(offline') < Len(offline)) =>
          \E u \in OfflineUsers :
             /\ {got'[i] : i \in DOMAIN got'} = Stored(u)
             /\ Len(got') = Cardinality(RowsOf(u))
             /\ \A i, j \in DOMAIN got' : i < j => got'[i] < got'[j]
             /\ \A n \in DOMAIN offline' : offline'[n].user # u
             /\ \A v \in OfflineUsers \ {u} :
                   SelectSeq(offline', LAMBDA r : r.user = v)
                      = SelectSeq(offline, LAMBDA r : r.user = v)]_vars

\* ------------------------------------------------ claims on the registry
\* C35: a step that changes the qr_version of an instance raises it by one
\* and replaces the connect secret by a different one, after which of all
\* secrets generated so far only the new one is verified for the instance;
\* and no secret is verified for an id the registry does not hold.
C35_ResetQrInvalidatesOldSecrets ==
    [][/\ \A i \in DOMAIN instances \cap DOMAIN instances' :
             instances'[i].qr_version # instances[i].qr_version =>
                /\ instances'[i].qr_version = instances[i].qr_version + 1
                /\ instances'[i].connect_secret # instances[i].connect_secret
                /\ \A s \in issued' :
                      VerifyConnectSecret(instances', i, s)
                         <=> s = instances'[i].connect_secret
                /\ \A s \in issued :
                      s[1] = i => ~VerifyConnectSecret(instances', i, s)
       /\ \A i \in InstanceIds \ DOMAIN instances', s \in issued' :
             ~VerifyConnectSecret(instances', i, s)]_vars

\* An instance has been reset and an earlier secret of it is rejected.
C35_Witness ==
    \E i \in DOMAIN instances :
       /\ instances[i].qr_version > 1
       /\ \E s \in issued :
             /\ s[1] = i
             /\ s # instances[i].connect_secret
             /\ ~VerifyConnectSecret(instances, i, s)

\* C40: no two instances of the registry have the same name.
C40_NamesAreUnique ==
    \A i, j \in DOMAIN instances :
       i # j => instances[i].name # instances[j].name

\* ------------------------------------------ claims on the QR payloads
\* The (platform, user, instance) triples of the online registry.
OnlineTriples(reg) ==
    {<<x[1][1], x[1][2], x[2]>> :
        x \in {y \in BindUsers \X InstanceIds : y[1] \in OnlineIn(reg, y[2])}}

\* C39: a step adds a user to the online registry or a binding to the store
\* only for the user and instance of a handler whose payload carried the
\* connect secret the instance had when it was verified, and nothing is
\* removed; a step that answers a payload as invalid or failed changes
\* neither the registry nor the store.
C39_BindOnlyAfterVerification ==
    [][/\ \A t \in (bindings' \ bindings)
                    \cup (OnlineTriples(online_users')
                            \ OnlineTriples(online_users)) :
             /\ qrPending # NoPending
             /\ t = <<qrPending.user[1], qrPending.user[2],
                      qrPending.instance_id>>
             /\ qrPending.secret = qrPending.current
       /\ qrPending' # NoPending => qrPending'.secret = qrPending'.current
       /\ bindings \subseteq bindings'
       /\ OnlineTriples(online_users) \subseteq OnlineTriples(online_users')
       /\ (qrReply' \in {"invalid", "failed"} /\ qrPending = NoPending) =>
             bindings' = bindings /\ online_users' = online_users]_vars

\* A user is bound and online for an instance whose secret was reset since,
\* and a later payload has been answered as invalid.
C39_Witness ==
    /\ qrReply = "invalid"
    /\ \E t \in bindings :
          /\ t \in OnlineTriples(online_users)
          /\ t[3] \in DOMAIN instances
          /\ instances[t[3]].qr_version > 1
====
